---- MODULE Spec2Model ----
(***************************************************************************)
(* The type-definition / signature pass of thiol-typeck (type_check and    *)
(* the Context it fills), as a state machine.  One behaviour is one call   *)
(* of type_check on an initially empty Context: the initial state holds    *)
(* the module under check, and each action is one step of the driver: the  *)
(* dependency-graph stage, one iteration of the loop over the strongly     *)
(* connected components, one add_function_signature, one add_constant,     *)
(* and the three phase ends.                                               *)
(***************************************************************************)
EXTENDS Integers, Sequences, FiniteSets, TLC

VARIABLES
    module,                \* hir::Module under check: [types, functions, consts]
    pc,                    \* position of type_check
    defs,                  \* Context.defs: name -> index of the definition
    generic_distinct_ids,  \* Context.generic_distinct_ids: name -> distinct id
    complete_types,        \* Context.complete_types: name -> TypeId
    types,                 \* Context.types: the bimap, a set of [ty, id] pairs
    distinct_counter,      \* Context.distinct_counter
    function_sigs,         \* Context.function_sigs: name -> FunctionSig
    consts,                \* Context.consts: name -> ConstantSig
    groups,                \* the components tarjan_scc returned, still to visit
    errs,                  \* the error vector of the running phase
    result,                \* what type_check returned: "none", "Ok" or "Err"
    returned,              \* the error list type_check returned
    interned,              \* every [ty, id] a call of add_type/add_or_get_type returned
    assert_failed,         \* a debug_assert of the Context did not hold
    cursor,                \* index of the next function / constant to visit
    last                   \* what the last step did (its item, its outcome)

vars == <<module, pc, defs, generic_distinct_ids, complete_types, types,
          distinct_counter, function_sigs, consts, groups, errs, result,
          returned, interned, assert_failed, cursor, last>>

----------------------------------------------------------------------------
(* Bounds of the explored modules.                                         *)

MaxDefs == 3
MaxFuncs == 2
MaxConsts == 2
MaxArraySize == 1

----------------------------------------------------------------------------
(* Finite maps (BTreeMap / HashMap) and sequences.                         *)

EmptyMap == [x \in {} |-> 0]

Put(m, k, v) == [x \in DOMAIN m \cup {k} |-> IF x = k THEN v ELSE m[x]]

Remove(m, ks) == [x \in DOMAIN m \ ks |-> m[x]]

Range(s) == {s[i] : i \in DOMAIN s}

RECURSIVE PermSeqs(_)
PermSeqs(S) ==
    IF S = {} THEN {<<>>}
    ELSE UNION {{<<x>> \o p : p \in PermSeqs(S \ {x})} : x \in S}

----------------------------------------------------------------------------
(* hir::TypeReference, hir::TypeDefinition, hir::Function, constants.      *)
(* A reference is [k, name, args, size]: args holds the base of an array   *)
(* or the generic arguments of a Named reference.                          *)

Primitive(p) == [k |-> "Primitive", name |-> p, args |-> <<>>, size |-> 0]

OpenArrayRef(inner) == [k |-> "OpenArray", name |-> "", args |-> <<inner>>, size |-> 0]

ArrayRef(base, size) == [k |-> "Array", name |-> "", args |-> <<base>>, size |-> size]

Named(name, generics) == [k |-> "Named", name |-> name, args |-> generics, size |-> 0]

Field(name, type_) == [name |-> name, type_ |-> type_]

\* TypeDefinitionRhs::Distinct / Alias carry one reference (rhs[1].type_),
\* Record carries its fields.
TypeDef(name, generics, kind, rhs) ==
    [name |-> name, generics |-> generics, kind |-> kind, rhs |-> rhs]

Function(name, ret_type, args) == [name |-> name, ret_type |-> ret_type, args |-> args]

\* A source location: the item (kind and index in the module) an identifier
\* or reference occurs in, and the name written there.
Loc(kind, idx, name) == [kind |-> kind, idx |-> idx, name |-> name]

NoLoc == Loc("none", 0, "")

----------------------------------------------------------------------------
(* Error (lib.rs 16-71), one record shape for all variants.                *)

Error(kind) ==
    [kind |-> kind, name |-> "", prev |-> 0, at |-> 0, loc |-> NoLoc,
     uses |-> <<>>, members |-> {}, given |-> 0, expected |-> 0]

NoError == Error("none")

TypeRedefinition(name, prev, at) ==
    [Error("TypeRedefinition") EXCEPT !.name = name, !.prev = prev, !.at = at]

GenericParamaterRedefinition(name, at) ==
    [Error("GenericParamaterRedefinition") EXCEPT !.name = name, !.at = at]

RecursiveTypeDefinition(name, at, usages) ==
    [Error("RecursiveTypeDefinition") EXCEPT !.name = name, !.at = at, !.uses = usages]

MutuallyRecursiveTypeDefinitions(members) ==
    [Error("MutuallyRecursiveTypeDefinitions") EXCEPT !.members = members]

UndefinedType(name, uses) ==
    [Error("UndefinedType") EXCEPT !.name = name, !.uses = uses]

HigherKindedGenericTypeUsed(name, loc) ==
    [Error("HigherKindedGenericTypeUsed") EXCEPT !.name = name, !.loc = loc]

MismatchedNumberGenericArgs(loc, given, expected, def) ==
    [Error("MismatchedNumberGenericArgs") EXCEPT
        !.name = loc.name, !.loc = loc, !.given = given, !.expected = expected, !.at = def]

FieldRedefinition(name, item) ==
    [Error("FieldRedefinition") EXCEPT !.name = name, !.at = item]

FunctionRedefinition(name, prev, at) ==
    [Error("FunctionRedefinition") EXCEPT !.name = name, !.prev = prev, !.at = at]

ConstantRedefinition(name, prev, at) ==
    [Error("ConstantRedefinition") EXCEPT !.name = name, !.prev = prev, !.at = at]

Kinds(es) == {es[i].kind : i \in DOMAIN es}

----------------------------------------------------------------------------
(* Type (the structural value the interner holds), one record shape.       *)

TPrim(p) == [tag |-> p, base |-> 0, size |-> 0, fields |-> <<>>, distinct_id |-> 0]

TOpenArray(base) == [TPrim("OpenArray") EXCEPT !.base = base]

TArray(base, size) == [TPrim("Array") EXCEPT !.base = base, !.size = size]

TRecord(fields) == [TPrim("Record") EXCEPT !.fields = fields]

TDistinct(distinct_id, inner) ==
    [TPrim("Distinct") EXCEPT !.distinct_id = distinct_id, !.base = inner]

----------------------------------------------------------------------------
(* The Context as one value, for the operators that thread it.             *)

Self ==
    [defs |-> defs, generic_distinct_ids |-> generic_distinct_ids,
     complete_types |-> complete_types, types |-> types,
     distinct_counter |-> distinct_counter, function_sigs |-> function_sigs,
     consts |-> consts, interned |-> interned, assert_failed |-> assert_failed]

Ok(self, id) == [self |-> self, st |-> "ok", id |-> id, err |-> NoError]

Err(self, e) == [self |-> self, st |-> "err", id |-> 0, err |-> e]

\* An index into a map that has no such key: the thread panics.
Panic(self) == [self |-> self, st |-> "panic", id |-> 0, err |-> NoError]

\* BiBTreeMap::insert: the pairs sharing the left or the right value go.
BimapInsert(m, ty, id) == {p \in m : p.ty # ty /\ p.id # id} \cup {[ty |-> ty, id |-> id]}

BimapOverwrites(m, ty, id) == \E p \in m : p.ty = ty \/ p.id = id

\* An interner that skips a handle (the fault C24 excludes).
add_type_gap(self, ty) ==
    [self |-> [self EXCEPT
                  !.types = BimapInsert(self.types, ty, Cardinality(self.types) + 1),
                  !.interned = @ \cup {[ty |-> ty, id |-> Cardinality(self.types) + 1]}],
     id |-> Cardinality(self.types) + 1]

add_type(self, ty) ==
    LET next_id == Cardinality(self.types) IN
    [self |-> [self EXCEPT
                  !.types = BimapInsert(self.types, ty, next_id),
                  !.interned = @ \cup {[ty |-> ty, id |-> next_id]},
                  !.assert_failed = @ \/ BimapOverwrites(self.types, ty, next_id)],
     id |-> next_id]

\* An interner that never looks a type up (the fault C1 excludes).
add_or_get_type_no_lookup(self, ty) == add_type(self, ty)

add_or_get_type(self, ty) ==
    IF \E p \in self.types : p.ty = ty
    THEN LET id == (CHOOSE p \in self.types : p.ty = ty).id IN
         [self |-> [self EXCEPT !.interned = @ \cup {[ty |-> ty, id |-> id]}],
          id |-> id]
    ELSE add_type(self, ty)

\* A counter that is read but never advanced (the fault C6 excludes).
next_distinct_id_stuck(self) == [self |-> self, id |-> self.distinct_counter]

next_distinct_id(self) ==
    [self |-> [self EXCEPT !.distinct_counter = @ + 1], id |-> self.distinct_counter]

----------------------------------------------------------------------------
(* Resolution of a reference: ty_ref and ty_named (mutually recursive).    *)
(* own is the item whose text holds the reference (its location).  The     *)
(* value of a call the code binds with `let` or `?` is handed to the       *)
(* operator that models the code after the call.                           *)

Owner(kind, idx) == [kind |-> kind, idx |-> idx]

\* Every parameter bound to the first argument (the fault C7 excludes).
Subst_first(generics, ids) == [n \in Range(generics) |-> ids[1]]

\* def.generics zipped with the argument handles, collected into a map
\* (a repeated parameter name keeps its last argument).
Subst(generics, ids) ==
    [n \in Range(generics) |->
        ids[CHOOSE i \in DOMAIN generics :
                /\ generics[i] = n
                /\ \A j \in DOMAIN generics : generics[j] = n => j <= i]]

\* Ok(self.add_or_get_type(ty)): a is what add_or_get_type returned.
ty_ref_ok(a) == Ok(a.self, a.id)

\* A cache that is never hit (the fault C10 excludes).
complete_type_miss(self, name, generics) == FALSE

\* The fast path of ty_named: a known complete type used without arguments.
complete_type_hit(self, name, generics) ==
    name \in DOMAIN self.complete_types /\ generics = <<>>

\* def.generics.len() != generics.len()
arity_mismatch(def, generics) == Len(def.generics) # Len(generics)

\* Applied parameters let through (the fault C8 excludes).
higher_kinded_never(gens) == FALSE

\* A generic parameter that is given arguments: !gens.is_empty()
higher_kinded(gens) == gens # <<>>

RECURSIVE ty_ref(_, _, _, _)
RECURSIVE ty_ref_generics(_, _, _, _, _)
RECURSIVE ty_named(_, _, _, _)
RECURSIVE ty_named_fields(_, _, _, _, _)

\* TR::OpenArray once the inner reference returned r.
ty_ref_open_array(r) ==
    IF r.st # "ok" THEN r ELSE ty_ref_ok(add_or_get_type(r.self, TOpenArray(r.id)))

\* TR::Array once the base returned r.
ty_ref_array(r, size) ==
    IF r.st # "ok" THEN r ELSE ty_ref_ok(add_or_get_type(r.self, TArray(r.id, size)))

\* TR::Named once the loop over the arguments returned g.
ty_ref_named(loc, name, subst, g) ==
    IF g.st # "ok" THEN [self |-> g.self, st |-> g.st, id |-> 0, err |-> g.err]
    ELSE IF name \in DOMAIN subst
    THEN IF higher_kinded(g.ids)
         THEN Err(g.self, HigherKindedGenericTypeUsed(name, loc))
         ELSE Ok(g.self, subst[name])
    ELSE ty_named(g.self, loc, name, g.ids)

ty_ref(self, own, ref, subst) ==
    CASE ref.k = "Primitive" -> ty_ref_ok(add_or_get_type(self, TPrim(ref.name)))
      [] ref.k = "OpenArray" -> ty_ref_open_array(ty_ref(self, own, ref.args[1], subst))
      [] ref.k = "Array" -> ty_ref_array(ty_ref(self, own, ref.args[1], subst), ref.size)
      [] ref.k = "Named" ->
            ty_ref_named(Loc(own.kind, own.idx, ref.name), ref.name, subst,
                         ty_ref_generics(self, own, ref.args, subst, <<>>))

\* One argument of a Named reference resolved to r: `?`, then gens.push.
ty_ref_generic(own, generics, subst, gens, r) ==
    IF r.st # "ok" THEN [self |-> r.self, st |-> r.st, ids |-> <<>>, err |-> r.err]
    ELSE ty_ref_generics(r.self, own, Tail(generics), subst, Append(gens, r.id))

\* The loop over the generic arguments of a Named reference.
ty_ref_generics(self, own, generics, subst, gens) ==
    IF generics = <<>> THEN [self |-> self, st |-> "ok", ids |-> gens, err |-> NoError]
    ELSE ty_ref_generic(own, generics, subst, gens, ty_ref(self, own, Head(generics), subst))

\* Rhs Distinct of ty_named once its reference returned r; the index
\* generic_distinct_ids[name] panics on a name the map does not hold.
ty_named_distinct(name, r) ==
    IF r.st # "ok" THEN r
    ELSE IF name \notin DOMAIN r.self.generic_distinct_ids THEN Panic(r.self)
    ELSE ty_ref_ok(add_or_get_type(r.self,
                        TDistinct(r.self.generic_distinct_ids[name], r.id)))

\* An instantiation given a distinct-id of its own (the fault C16 excludes).
ty_named_record_distinct_fresh(distinct_id, inner) ==
    ty_ref_ok(add_or_get_type(next_distinct_id(inner.self).self,
                              TDistinct(inner.self.distinct_counter, inner.id)))

\* Rhs Record of ty_named once the record itself is interned as inner.
ty_named_record_distinct(distinct_id, inner) ==
    ty_ref_ok(add_or_get_type(inner.self, TDistinct(distinct_id, inner.id)))

\* Rhs Record of ty_named once the loop over the fields returned f.
ty_named_record(distinct_id, f) ==
    IF f.st # "ok" THEN [self |-> f.self, st |-> f.st, id |-> 0, err |-> f.err]
    ELSE ty_named_record_distinct(distinct_id, add_or_get_type(f.self, TRecord(f.fields)))

\* The match on the right-hand side of the definition.
ty_named_rhs(self, name, own, def, subst) ==
    CASE def.kind = "Distinct" ->
            ty_named_distinct(name, ty_ref(self, own, def.rhs[1].type_, subst))
      [] def.kind = "Alias" -> ty_ref(self, own, def.rhs[1].type_, subst)
      [] def.kind = "Record" ->
            IF name \notin DOMAIN self.generic_distinct_ids THEN Panic(self)
            ELSE ty_named_record(self.generic_distinct_ids[name],
                                 ty_named_fields(self, own, def.rhs, subst, <<>>))

\* The name is in defs, as definition id.
ty_named_def(self, loc, name, generics, id) ==
    IF arity_mismatch(module.types[id], generics)
    THEN Err(self, MismatchedNumberGenericArgs(loc, Len(generics),
                                               Len(module.types[id].generics), id))
    ELSE ty_named_rhs(self, name, Owner("type", id), module.types[id],
                      Subst(module.types[id].generics, generics))

ty_named(self, loc, name, generics) ==
    IF complete_type_hit(self, name, generics) THEN Ok(self, self.complete_types[name])
    ELSE IF name \in DOMAIN self.defs
    THEN ty_named_def(self, loc, name, generics, self.defs[name])
    ELSE Err(self, UndefinedType(name, <<loc>>))

\* One field of an instantiated generic record resolved to r.
ty_named_field(own, fields, subst, record_fields, r) ==
    IF r.st # "ok" THEN [self |-> r.self, st |-> r.st, fields |-> <<>>, err |-> r.err]
    ELSE ty_named_fields(r.self, own, Tail(fields), subst,
                         Append(record_fields, Field(Head(fields).name, r.id)))

\* The loop over the fields of an instantiated generic record.
ty_named_fields(self, own, fields, subst, record_fields) ==
    IF fields = <<>>
    THEN [self |-> self, st |-> "ok", fields |-> record_fields, err |-> NoError]
    ELSE ty_named_field(own, fields, subst, record_fields,
                        ty_ref(self, own, Head(fields).type_, subst))

----------------------------------------------------------------------------
(* Validation of a reference inside a generic definition (no interning).   *)
(* Returns NoError for Ok(()).                                             *)

RECURSIVE ty_validate_ref(_, _, _, _)
RECURSIVE ty_validate_generics(_, _, _, _)

\* The name is in defs, as definition def_id.
ty_validate_def(self, own, ref, generics, def_id) ==
    IF arity_mismatch(module.types[def_id], ref.args)
    THEN MismatchedNumberGenericArgs(Loc(own.kind, own.idx, ref.name), Len(ref.args),
                                     Len(module.types[def_id].generics), def_id)
    ELSE ty_validate_generics(self, own, ref.args, generics)

ty_validate_ref(self, own, ref, generics) ==
    CASE ref.k = "Primitive" -> NoError
      [] ref.k \in {"OpenArray", "Array"} -> ty_validate_ref(self, own, ref.args[1], generics)
      [] ref.k = "Named" ->
            IF ref.name \in generics
            THEN IF higher_kinded(ref.args)
                 THEN HigherKindedGenericTypeUsed(ref.name, Loc(own.kind, own.idx, ref.name))
                 ELSE NoError
            ELSE IF ref.name \in DOMAIN self.defs
            THEN ty_validate_def(self, own, ref, generics, self.defs[ref.name])
            ELSE UndefinedType(ref.name, <<Loc(own.kind, own.idx, ref.name)>>)

\* One applied argument validated to e: `?`.
ty_validate_generic(self, own, applied_gens, generics, e) ==
    IF e # NoError THEN e
    ELSE ty_validate_generics(self, own, Tail(applied_gens), generics)

\* The loop over the applied arguments: the first error ends it.
ty_validate_generics(self, own, applied_gens, generics) ==
    IF applied_gens = <<>> THEN NoError
    ELSE ty_validate_generic(self, own, applied_gens, generics,
                             ty_validate_ref(self, own, Head(applied_gens), generics))

----------------------------------------------------------------------------
(* The names a definition depends on: type_ref_deps and type_def_deps.     *)
(* deps maps a name to the locations of its uses, in order.                *)

RECURSIVE type_ref_deps(_, _, _)
RECURSIVE type_ref_deps_generics(_, _, _)

\* Dependencies that stop at an array (the fault C5 excludes).
type_ref_deps_shallow(own, ty, deps) ==
    IF ty.k # "Named" THEN deps
    ELSE type_ref_deps_generics(own, ty.args,
            Put(deps, ty.name,
                Append(IF ty.name \in DOMAIN deps THEN deps[ty.name] ELSE <<>>,
                       Loc(own.kind, own.idx, ty.name))))

type_ref_deps(own, ty, deps) ==
    CASE ty.k = "Primitive" -> deps
      [] ty.k \in {"OpenArray", "Array"} -> type_ref_deps(own, ty.args[1], deps)
      [] ty.k = "Named" ->
            LET usage_loc == Loc(own.kind, own.idx, ty.name)
                locs == IF ty.name \in DOMAIN deps THEN deps[ty.name] ELSE <<>>
            IN  type_ref_deps_generics(own, ty.args, Put(deps, ty.name, Append(locs, usage_loc)))

type_ref_deps_generics(own, generics, deps) ==
    IF generics = <<>> THEN deps
    ELSE type_ref_deps_generics(own, Tail(generics), type_ref_deps(own, Head(generics), deps))

RECURSIVE type_def_deps_fields(_, _, _)
type_def_deps_fields(own, fields, deps) ==
    IF fields = <<>> THEN deps
    ELSE type_def_deps_fields(own, Tail(fields), type_ref_deps(own, Head(fields).type_, deps))

\* Dependencies that keep the names of the parameters (the fault C18 excludes).
type_def_deps_keeping(id, deps) ==
    [err |-> NoError,
     deps |-> type_def_deps_fields(Owner("type", id), module.types[id].rhs, deps)]

\* [err, deps]: on a repeated generic parameter deps is returned untouched.
type_def_deps(id, deps) ==
    LET ty == module.types[id]
        own == Owner("type", id)
        dup == {i \in DOMAIN ty.generics : \E j \in 1..(i - 1) : ty.generics[j] = ty.generics[i]}
    IN  IF dup # {}
        THEN LET i == CHOOSE i \in dup : \A j \in dup : i <= j IN
             [err |-> GenericParamaterRedefinition(ty.generics[i], id), deps |-> deps]
        ELSE [err |-> NoError,
              deps |-> Remove(type_def_deps_fields(own, ty.rhs, deps), Range(ty.generics))]

----------------------------------------------------------------------------
(* process_type_definitions, lib.rs 131-194: the graph and its errors.     *)

\* A first loop that reports no repeated name (the fault C3 excludes).
name_nodes_unchecked(i, st) ==
    [tyname_to_node |->
        [n \in {module.types[j].name : j \in DOMAIN module.types} |->
            CHOOSE j \in DOMAIN module.types :
                /\ module.types[j].name = n
                /\ \A k \in DOMAIN module.types : module.types[k].name = n => k <= j],
     errs |-> <<>>]

\* First loop: tyname_to_node keeps the last node of a name.
RECURSIVE name_nodes(_, _)
name_nodes(i, st) ==
    IF i > Len(module.types) THEN st
    ELSE LET ty_name == module.types[i].name IN
         name_nodes(i + 1,
            [tyname_to_node |-> Put(st.tyname_to_node, ty_name, i),
             errs |-> IF ty_name \in DOMAIN st.tyname_to_node
                      THEN Append(st.errs, TypeRedefinition(ty_name, st.tyname_to_node[ty_name], i))
                      ELSE st.errs])

\* A drain that adds no edge and reports nothing (the fault C22 excludes).
drain_deps_edgeless(tyname_to_node, self_node, deps, order, st) ==
    [st EXCEPT !.deps = EmptyMap]

\* deps.drain() in the order `order` (lib.rs 179-189).  adj[n] lists the
\* targets of n's edges as the graph iterates them: the newest first.
RECURSIVE drain_deps(_, _, _, _, _)
drain_deps(tyname_to_node, self_node, deps, order, st) ==
    IF order = <<>> THEN [st EXCEPT !.deps = EmptyMap]
    ELSE LET name == Head(order) IN
         drain_deps(tyname_to_node, self_node, deps, Tail(order),
            IF name \in DOMAIN tyname_to_node
            THEN [st EXCEPT !.adj[self_node] = <<tyname_to_node[name]>> \o @]
            ELSE [st EXCEPT !.errs = Append(@, UndefinedType(name, deps[name]))])

\* One iteration of the second loop (160-190): every outcome a HashMap
\* iteration order of deps can give.
dependency_step(tyname_to_node, id, st) ==
    LET ty_name == module.types[id].name
        d == type_def_deps(id, st.deps)
    IN  IF d.err # NoError THEN {[st EXCEPT !.errs = Append(@, d.err)]}
        ELSE IF ty_name \in DOMAIN d.deps
        THEN {[st EXCEPT !.errs = Append(@, RecursiveTypeDefinition(ty_name, id, d.deps[ty_name])),
                         !.deps = d.deps]}
        ELSE {drain_deps(tyname_to_node, tyname_to_node[ty_name], d.deps, order, st) :
                    order \in PermSeqs(DOMAIN d.deps)}

RECURSIVE dependency_loop(_, _, _)
dependency_loop(tyname_to_node, id, st) ==
    IF id > Len(module.types) THEN {st}
    ELSE UNION {dependency_loop(tyname_to_node, id + 1, st2) :
                    st2 \in dependency_step(tyname_to_node, id, st)}

\* The set of [errs, adj, deps] the two loops can end with.
dependency_graphs ==
    LET n == name_nodes(1, [tyname_to_node |-> EmptyMap, errs |-> <<>>]) IN
    dependency_loop(n.tyname_to_node, 1,
        [errs |-> n.errs, adj |-> [i \in DOMAIN module.types |-> <<>>], deps |-> EmptyMap])

----------------------------------------------------------------------------
(* petgraph::algo::tarjan_scc as the crate documents it: the components in *)
(* postorder of the depth-first search from the nodes in index order; the  *)
(* order inside a component is left open, so a component is a set here.    *)

RECURSIVE dfs_visit(_, _, _)
RECURSIVE dfs_neighbors(_, _, _)

dfs_visit(adj, n, st) ==
    IF n \in st.seen THEN st
    ELSE LET s == dfs_neighbors(adj, adj[n], [st EXCEPT !.seen = @ \cup {n}]) IN
         [s EXCEPT !.post = Append(@, n)]

dfs_neighbors(adj, ns, st) ==
    IF ns = <<>> THEN st
    ELSE dfs_neighbors(adj, Tail(ns), dfs_visit(adj, Head(ns), st))

RECURSIVE dfs_roots(_, _, _)
dfs_roots(adj, n, st) ==
    IF n > Len(adj) THEN st ELSE dfs_roots(adj, n + 1, dfs_visit(adj, n, st))

RECURSIVE reachable(_, _)
reachable(adj, S) ==
    LET T == S \cup UNION {Range(adj[n]) : n \in S} IN
    IF T = S THEN S ELSE reachable(adj, T)

component(adj, n) == {m \in reachable(adj, {n}) : n \in reachable(adj, {m})}

tarjan_scc(adj) ==
    LET post == dfs_roots(adj, 1, [seen |-> {}, post |-> <<>>]).post
        pos(n) == CHOOSE i \in DOMAIN post : post[i] = n
        roots == SelectSeq(post, LAMBDA n : \A m \in component(adj, n) : pos(m) <= pos(n))
    IN  [i \in DOMAIN roots |-> component(adj, roots[i])]

----------------------------------------------------------------------------
(* Context::add_type_definition.  Returns [self, st, errs]: st is "ok"     *)
(* (Ok when errs is empty, Err(errs) otherwise) or "panic".                *)

Returned(self, es) == [self |-> self, st |-> "ok", errs |-> es]

Panicked(self) == [self |-> self, st |-> "panic", errs |-> <<>>]

\* if let Err(err) = ... { errs.push(err) } on an empty vector.
pushed(e) == IF e # NoError THEN <<e>> ELSE <<>>

\* fields_so_far.insert and the FieldRedefinition it may push.
field_redefinition(id, var_def, st) ==
    IF var_def.name \in st.fields_so_far
    THEN Append(st.errs, FieldRedefinition(var_def.name, id))
    ELSE st.errs

RECURSIVE complete_record_fields(_, _, _)

\* One field of a non-generic record: e1 the errors after the name check,
\* r what ty_ref returned for the field's type.
complete_record_field(id, field_ids, st, e1, r) ==
    complete_record_fields(id, Tail(field_ids),
        [self |-> r.self,
         st |-> IF r.st = "panic" THEN "panic" ELSE "ok",
         errs |-> IF r.st = "err" THEN Append(e1, r.err) ELSE e1,
         fields |-> IF r.st = "ok"
                    THEN Append(st.fields, Field(Head(field_ids).name, r.id))
                    ELSE st.fields,
         fields_so_far |-> st.fields_so_far \cup {Head(field_ids).name}])

\* The loop over the fields of a non-generic record.
complete_record_fields(id, field_ids, st) ==
    IF field_ids = <<>> \/ st.st = "panic" THEN st
    ELSE complete_record_field(id, field_ids, st,
            field_redefinition(id, Head(field_ids), st),
            ty_ref(st.self, Owner("type", id), Head(field_ids).type_, EmptyMap))

RECURSIVE generic_record_fields(_, _, _, _, _)

\* One field of a generic record: e1 as above, e what ty_validate_ref returned.
generic_record_field(self, id, fields, generics, st, e1, e) ==
    generic_record_fields(self, id, Tail(fields), generics,
        [errs |-> IF e # NoError THEN Append(e1, e) ELSE e1,
         fields_so_far |-> st.fields_so_far \cup {Head(fields).name}])

\* The loop over the fields of a generic record.
generic_record_fields(self, id, fields, generics, st) ==
    IF fields = <<>> THEN st
    ELSE generic_record_field(self, id, fields, generics, st,
            field_redefinition(id, Head(fields), st),
            ty_validate_ref(self, Owner("type", id), Head(fields).type_, generics))

\* complete_types.insert and its debug_assert.
complete(self, name, ty_id) ==
    Returned([self EXCEPT !.complete_types = Put(@, name, ty_id),
                          !.assert_failed = @ \/ name \in DOMAIN self.complete_types],
             <<>>)

\* a is what add_type returned for the definition's own type.
complete_added(name, a) == complete(a.self, name, a.id)

\* self.add_type(Type::Distinct { distinct_id, inner }), d from next_distinct_id.
add_distinct(name, d, inner) == complete_added(name, add_type(d.self, TDistinct(d.id, inner)))

\* Non-generic Distinct once its reference returned r.
complete_distinct(name, r) ==
    IF r.st = "panic" THEN Panicked(r.self)
    ELSE IF r.st = "err" THEN Returned(r.self, <<r.err>>)
    ELSE add_distinct(name, next_distinct_id(r.self), r.id)

\* An alias wrapped in a Distinct of its own (the fault C17 excludes).
complete_alias_wrapped(name, r) == complete_distinct(name, r)

\* Non-generic Alias once its reference returned r.
complete_alias(name, r) ==
    IF r.st = "panic" THEN Panicked(r.self)
    ELSE IF r.st = "err" THEN Returned(r.self, <<r.err>>)
    ELSE complete(r.self, name, r.id)

\* A record that takes the counter's value and leaves the counter (the fault
\* C25 excludes).
complete_record_distinct_peek(name, inner) ==
    add_distinct(name, [self |-> inner.self, id |-> inner.self.distinct_counter], inner.id)

\* Non-generic Record once the record itself is interned as inner.
complete_record_distinct(name, inner) ==
    add_distinct(name, next_distinct_id(inner.self), inner.id)

\* Non-generic Record once the loop over the fields returned f.
complete_record(name, f) ==
    IF f.st = "panic" THEN Panicked(f.self)
    ELSE IF f.errs # <<>> THEN Returned(f.self, f.errs)
    ELSE complete_record_distinct(name, add_or_get_type(f.self, TRecord(f.fields)))

\* A generic definition whose distinct id is not stored (the fault C12 excludes).
generic_distinct_unstored(name, d, es) == Returned(d.self, es)

\* generic_distinct_ids.insert(name, distinct_id), d from next_distinct_id.
generic_distinct(name, d, es) ==
    Returned([d.self EXCEPT !.generic_distinct_ids = Put(@, name, d.id)], es)

\* A generic alias given an identity of its own (the fault C15 excludes).
generic_alias_distinct(self, es) == Returned(next_distinct_id(self).self, es)

\* A generic Alias is validated and nothing else.
generic_alias(self, es) == Returned(self, es)

\* The body after defs.insert: def is the definition, name its name.
add_type_definition_rhs(self, id, def, name) ==
    IF def.generics = <<>>
    THEN CASE def.kind = "Distinct" ->
                complete_distinct(name,
                    ty_ref(self, Owner("type", id), def.rhs[1].type_, EmptyMap))
           [] def.kind = "Alias" ->
                complete_alias(name,
                    ty_ref(self, Owner("type", id), def.rhs[1].type_, EmptyMap))
           [] def.kind = "Record" ->
                complete_record(name,
                    complete_record_fields(id, def.rhs,
                        [self |-> self, st |-> "ok", errs |-> <<>>, fields |-> <<>>,
                         fields_so_far |-> {}]))
    ELSE CASE def.kind = "Distinct" ->
                generic_distinct(name, next_distinct_id(self),
                    pushed(ty_validate_ref(self, Owner("type", id), def.rhs[1].type_,
                                           Range(def.generics))))
           [] def.kind = "Alias" ->
                generic_alias(self,
                    pushed(ty_validate_ref(self, Owner("type", id), def.rhs[1].type_,
                                           Range(def.generics))))
           [] def.kind = "Record" ->
                generic_distinct(name, next_distinct_id(self),
                    generic_record_fields(self, id, def.rhs, Range(def.generics),
                        [errs |-> <<>>, fields_so_far |-> {}]).errs)

\* A registration that forgets defs.insert (the fault C13 excludes).
add_type_definition_unnamed(self, id) ==
    add_type_definition_rhs(self, id, module.types[id], module.types[id].name)

add_type_definition(self, id) ==
    add_type_definition_rhs(
        [self EXCEPT !.defs = Put(@, module.types[id].name, id),
                     !.assert_failed = @ \/ module.types[id].name \in DOMAIN self.defs],
        id, module.types[id], module.types[id].name)

----------------------------------------------------------------------------
(* Context::add_function_signature and Context::add_constant.              *)
(* Return [self, st, err]: st is "ok" (Ok when err is NoError) or "panic". *)

RECURSIVE function_args(_, _, _, _)

\* One argument resolved to r: `?`, then the pair is collected.
function_arg(func, fun_args, args, r) ==
    IF r.st # "ok" THEN [self |-> r.self, st |-> r.st, args |-> <<>>, err |-> r.err]
    ELSE function_args(r.self, func, Tail(fun_args),
                       Append(args, Field(Head(fun_args).name, r.id)))

\* The arguments: the first failure ends the collect.
function_args(self, func, fun_args, args) ==
    IF fun_args = <<>> THEN [self |-> self, st |-> "ok", args |-> args, err |-> NoError]
    ELSE function_arg(func, fun_args, args,
            ty_ref(self, Owner("function", func), Head(fun_args).type_, EmptyMap))

\* A clash that replaces the earlier signature (the fault C11 excludes).
function_sig_entry_overwrite(func, fun, ret, a) ==
    IF a.st # "ok" THEN [self |-> a.self, st |-> a.st, err |-> a.err]
    ELSE [self |-> [a.self EXCEPT !.function_sigs =
                        Put(@, fun.name, [func_id |-> func, args |-> a.args, ret |-> ret])],
          st |-> "ok",
          err |-> IF fun.name \notin DOMAIN a.self.function_sigs THEN NoError
                  ELSE FunctionRedefinition(fun.name,
                                            a.self.function_sigs[fun.name].func_id, func)]

\* function_sigs.entry(name), a what the arguments returned.
function_sig_entry(func, fun, ret, a) ==
    IF a.st # "ok" THEN [self |-> a.self, st |-> a.st, err |-> a.err]
    ELSE IF fun.name \notin DOMAIN a.self.function_sigs
    THEN [self |-> [a.self EXCEPT !.function_sigs =
                        Put(@, fun.name, [func_id |-> func, args |-> a.args, ret |-> ret])],
          st |-> "ok", err |-> NoError]
    ELSE [self |-> a.self, st |-> "ok",
          err |-> FunctionRedefinition(fun.name, a.self.function_sigs[fun.name].func_id, func)]

\* After the return type resolved to ret.
function_sig_args(func, fun, ret) ==
    IF ret.st # "ok" THEN [self |-> ret.self, st |-> ret.st, err |-> ret.err]
    ELSE function_sig_entry(func, fun, ret.id, function_args(ret.self, func, fun.args, <<>>))

add_function_signature(self, func) ==
    function_sig_args(func, module.functions[func],
        ty_ref(self, Owner("function", func), module.functions[func].ret_type, EmptyMap))

\* consts.entry(name), ty what the constant's type resolved to.
const_entry(id, def, ty) ==
    IF ty.st # "ok" THEN [self |-> ty.self, st |-> ty.st, err |-> ty.err]
    ELSE IF def.name \notin DOMAIN ty.self.consts
    THEN [self |-> [ty.self EXCEPT !.consts =
                        Put(@, def.name, [const_id |-> id, type_ |-> ty.id])],
          st |-> "ok", err |-> NoError]
    ELSE [self |-> ty.self, st |-> "ok",
          err |-> ConstantRedefinition(def.name, ty.self.consts[def.name].const_id, id)]

add_constant(self, id) ==
    const_entry(id, module.consts[id],
        ty_ref(self, Owner("const", id), module.consts[id].type_, EmptyMap))

----------------------------------------------------------------------------
(* The driver: type_check and the three phases, one action per step.       *)

\* What a step did: the item it visited, the errors it produced, and the
\* Context it started from.
Step(op, item, es) == [op |-> op, item |-> item, errs |-> es, self |-> Self]

SetContext(self) ==
    /\ defs' = self.defs
    /\ generic_distinct_ids' = self.generic_distinct_ids
    /\ complete_types' = self.complete_types
    /\ types' = self.types
    /\ distinct_counter' = self.distinct_counter
    /\ function_sigs' = self.function_sigs
    /\ consts' = self.consts
    /\ interned' = self.interned
    /\ assert_failed' = self.assert_failed

\* type_check returns Err(es): the `?` of type_check.
ReturnErr(es) ==
    /\ pc' = "done"
    /\ result' = "Err"
    /\ returned' = es

\* What a phase returns for its error vector.
\* A type phase that always reports success (the fault C2 excludes).
process_type_definitions_always_ok(es) == "Ok"

process_type_definitions_result(es) == IF es = <<>> THEN "Ok" ELSE "Err"

add_function_signatures_result(es) == IF es # <<>> THEN "Err" ELSE "Ok"

add_constants_result(es) == IF es = <<>> THEN "Ok" ELSE "Err"

\* Two loops that go on to tarjan_scc whatever they found (the fault C23 excludes).
DependencyGraphBuilt_on(g) ==
    /\ errs' = g.errs
    /\ last' = Step("dependency_stage", 0, g.errs)
    /\ pc' = "groups"
    /\ groups' = tarjan_scc(g.adj)
    /\ UNCHANGED <<result, returned>>

\* The two loops ended with g: the early return, or tarjan_scc.
DependencyGraphBuilt(g) ==
    /\ errs' = g.errs
    /\ last' = Step("dependency_stage", 0, g.errs)
    /\ IF g.errs # <<>>
       THEN /\ ReturnErr(g.errs)
            /\ groups' = <<>>
       ELSE /\ pc' = "groups"
            /\ groups' = tarjan_scc(g.adj)
            /\ UNCHANGED <<result, returned>>

\* process_type_definitions up to tarjan_scc.
DependencyStage ==
    /\ pc = "process_type_definitions"
    /\ \E g \in dependency_graphs : DependencyGraphBuilt(g)
    /\ UNCHANGED <<module, defs, generic_distinct_ids, complete_types, types,
                   distinct_counter, function_sigs, consts, interned, assert_failed, cursor>>

\* errs.push of the component's error.
MutualRecursionFound(e) ==
    /\ errs' = Append(errs, e)
    /\ last' = Step("mutual_recursion", 0, <<e>>)

\* A component of more than one definition.
MutualRecursionGroup ==
    /\ pc = "groups"
    /\ groups # <<>>
    /\ Cardinality(Head(groups)) > 1
    /\ MutualRecursionFound(MutuallyRecursiveTypeDefinitions(Head(groups)))
    /\ groups' = Tail(groups)
    /\ UNCHANGED <<module, pc, defs, generic_distinct_ids, complete_types, types,
                   distinct_counter, function_sigs, consts, result, returned,
                   interned, assert_failed, cursor>>

\* add_type_definition(id) returned r: errs.extend, or the panic unwinds.
TypeDefinitionAdded(id, r) ==
    /\ SetContext(r.self)
    /\ last' = Step("add_type_definition", id, r.errs)
    /\ IF r.st = "panic"
       THEN /\ pc' = "panicked"
            /\ UNCHANGED <<errs, groups>>
       ELSE /\ errs' = errs \o r.errs
            /\ groups' = Tail(groups)
            /\ pc' = pc

\* group[0] of a component of one definition.
group_id(group) == CHOOSE i \in group : TRUE

\* A component of one definition.
AddTypeDefinition ==
    /\ pc = "groups"
    /\ groups # <<>>
    /\ Cardinality(Head(groups)) = 1
    /\ TypeDefinitionAdded(group_id(Head(groups)),
                           add_type_definition(Self, group_id(Head(groups))))
    /\ UNCHANGED <<module, result, returned, cursor>>

\* The end of process_type_definitions and the first `?` of type_check.
EndTypeDefinitions ==
    /\ pc = "groups"
    /\ groups = <<>>
    /\ last' = Step("end_type_definitions", 0, errs)
    /\ IF process_type_definitions_result(errs) = "Err"
       THEN /\ ReturnErr(errs)
            /\ UNCHANGED <<errs, cursor>>
       ELSE /\ pc' = "add_function_signatures"
            /\ cursor' = 1
            /\ errs' = <<>>
            /\ UNCHANGED <<result, returned>>
    /\ UNCHANGED <<module, defs, generic_distinct_ids, complete_types, types,
                   distinct_counter, function_sigs, consts, groups, interned, assert_failed>>

\* An item of the function or constant loop returned r.
ItemAdded(op, r) ==
    /\ SetContext(r.self)
    /\ last' = Step(op, cursor, pushed(r.err))
    /\ IF r.st = "panic"
       THEN /\ pc' = "panicked"
            /\ UNCHANGED <<errs, cursor>>
       ELSE /\ errs' = errs \o pushed(r.err)
            /\ cursor' = cursor + 1
            /\ pc' = pc

\* One iteration of the loop of add_function_signatures.
AddFunctionSignature ==
    /\ pc = "add_function_signatures"
    /\ cursor <= Len(module.functions)
    /\ ItemAdded("add_function_signature", add_function_signature(Self, cursor))
    /\ UNCHANGED <<module, groups, result, returned>>

\* The end of add_function_signatures and the second `?` of type_check.
EndFunctionSignatures ==
    /\ pc = "add_function_signatures"
    /\ cursor > Len(module.functions)
    /\ last' = Step("end_function_signatures", 0, errs)
    /\ IF add_function_signatures_result(errs) = "Err"
       THEN /\ ReturnErr(errs)
            /\ UNCHANGED <<errs, cursor>>
       ELSE /\ pc' = "add_constants"
            /\ cursor' = 1
            /\ errs' = <<>>
            /\ UNCHANGED <<result, returned>>
    /\ UNCHANGED <<module, defs, generic_distinct_ids, complete_types, types,
                   distinct_counter, function_sigs, consts, groups, interned, assert_failed>>

\* One iteration of the loop of add_constants.
AddConstant ==
    /\ pc = "add_constants"
    /\ cursor <= Len(module.consts)
    /\ ItemAdded("add_constant", add_constant(Self, cursor))
    /\ UNCHANGED <<module, groups, result, returned>>

\* The end of add_constants and of type_check.
EndConstants ==
    /\ pc = "add_constants"
    /\ cursor > Len(module.consts)
    /\ last' = Step("end_constants", 0, errs)
    /\ pc' = "done"
    /\ result' = add_constants_result(errs)
    /\ returned' = errs
    /\ UNCHANGED <<module, defs, generic_distinct_ids, complete_types, types,
                   distinct_counter, function_sigs, consts, groups, errs, interned,
                   assert_failed, cursor>>

Next ==
    \/ DependencyStage
    \/ MutualRecursionGroup
    \/ AddTypeDefinition
    \/ EndTypeDefinitions
    \/ AddFunctionSignature
    \/ EndFunctionSignatures
    \/ AddConstant
    \/ EndConstants

\* Context::default() and the call of type_check on module m.
Start(m) ==
    /\ module = m
    /\ pc = "process_type_definitions"
    /\ defs = EmptyMap
    /\ generic_distinct_ids = EmptyMap
    /\ complete_types = EmptyMap
    /\ types = {}
    /\ distinct_counter = 0
    /\ function_sigs = EmptyMap
    /\ consts = EmptyMap
    /\ groups = <<>>
    /\ errs = <<>>
    /\ result = "none"
    /\ returned = <<>>
    /\ interned = {}
    /\ assert_failed = FALSE
    /\ cursor = 0
    /\ last = Step("start", 0, <<>>)

----------------------------------------------------------------------------
(* The modules explored.  Type names A, B, C (and Z, never defined),       *)
(* generic parameters T, U, functions f, g, constants k, l.                *)

Mod(ts, fs, cs) == [types |-> ts, functions |-> fs, consts |-> cs]

PInt == Primitive("Int")
PBool == Primitive("Bool")
Ref(n) == Named(n, <<>>)
App(n, a) == Named(n, <<a>>)
App2(n, a, b) == Named(n, <<a, b>>)

Record(name, generics, fields) == TypeDef(name, generics, "Record", fields)
Alias(name, generics, ref) == TypeDef(name, generics, "Alias", <<Field("", ref)>>)
Distinct(name, generics, ref) == TypeDef(name, generics, "Distinct", <<Field("", ref)>>)

\* Up to MaxDefs one-field records over A, B, C: every shape of dependency
\* graph on them (chains, diamonds, cycles, repeated names, undefined names).
WideDefs ==
    {Record(n, <<>>, <<Field("x", r)>>) :
        n \in {"A", "B", "C"}, r \in {PInt, Ref("A"), Ref("B"), Ref("C")}}

\* A definition named A that another definition can use.
Providers ==
    { Record("A", <<>>, <<Field("x", PInt)>>),
      Record("A", <<>>, <<Field("x", PInt), Field("x", PBool)>>),
      Record("A", <<>>, <<Field("x", PInt), Field("y", PInt)>>),
      Alias("A", <<>>, PInt),
      Distinct("A", <<>>, PInt),
      Alias("A", <<>>, OpenArrayRef(PInt)),
      Record("A", <<"T">>, <<Field("x", Ref("T"))>>),
      Record("A", <<"T">>, <<Field("x", OpenArrayRef(Ref("T"))), Field("y", PInt)>>),
      Record("A", <<"T">>, <<Field("x", Ref("T")), Field("x", Ref("T"))>>),
      Record("A", <<"T">>, <<Field("x", App("T", PInt))>>),
      Distinct("A", <<"T">>, Ref("T")),
      Alias("A", <<"T">>, Ref("T")),
      Alias("A", <<"T">>, App("T", PInt)),
      Record("A", <<"T", "U">>, <<Field("x", Ref("T")), Field("y", Ref("U"))>>),
      Record("A", <<"T", "T">>, <<Field("x", Ref("T"))>>),
      Record("A", <<"T", "T">>, <<Field("x", Ref("A"))>>),
      Record("A", <<"A">>, <<Field("x", Ref("A"))>>),
      Record("A", <<"B">>, <<Field("x", Ref("B"))>>) }

\* The references a using definition is built from.
UserRefs ==
    { PInt, Ref("A"), Ref("B"), Ref("T"), OpenArrayRef(Ref("A")), OpenArrayRef(Ref("B")),
      App("A", PInt), App("A", PBool), App("A", Ref("T")), App("A", Ref("B")),
      App2("A", PInt, PBool), App("T", PInt), App("A", App("T", PInt)),
      App2("A", Ref("B"), App("T", PInt)), App("A", OpenArrayRef(PInt)) }
    \cup {ArrayRef(Ref("A"), n) : n \in 1..MaxArraySize}

UserBodies ==
    [kind : {"Alias", "Distinct"}, rhs : {<<Field("", r)>> : r \in UserRefs}]
    \cup [kind : {"Record"},
          rhs : {<<Field("x", r)>> : r \in UserRefs}
                \cup {<<Field("x", r), Field("y", r)>> : r \in UserRefs}
                \cup {<<Field("x", r), Field("x", PInt)>> : r \in UserRefs}
                \cup {<<Field("x", App("A", PInt)), Field("y", App("A", PBool))>>}]

Users ==
    {TypeDef(n, g, b.kind, b.rhs) : n \in {"A", "B"}, g \in {<<>>, <<"T">>}, b \in UserBodies}

\* Three definitions in a chain: C uses B uses A.
ChainFirst ==
    { Record("A", <<>>, <<Field("x", PInt)>>),
      Record("A", <<>>, <<Field("x", PInt), Field("x", PInt)>>),
      Record("A", <<"T">>, <<Field("x", Ref("T"))>>),
      Distinct("A", <<"T">>, Ref("T")),
      Alias("A", <<"T">>, Ref("T")),
      Record("A", <<"T", "U">>, <<Field("x", Ref("T")), Field("y", Ref("U"))>>) }

ChainSecond ==
    { Record("B", <<>>, <<Field("x", Ref("A"))>>),
      Alias("B", <<>>, App("A", PInt)),
      Record("B", <<"T">>, <<Field("x", App("A", Ref("T")))>>),
      Record("B", <<"U">>, <<Field("y", App("A", OpenArrayRef(Ref("U"))))>>),
      Alias("B", <<"T">>, App("A", Ref("T"))),
      Distinct("B", <<"T">>, App2("A", Ref("T"), PInt)),
      Record("B", <<"A">>, <<Field("x", Ref("A"))>>) }

ChainThird ==
    { Record("C", <<>>, <<Field("x", Ref("B"))>>),
      Record("C", <<>>, <<Field("x", App("B", PInt))>>),
      Record("C", <<>>, <<Field("x", App("B", PInt)), Field("y", App("A", PInt))>>),
      Record("C", <<>>, <<Field("x", App("B", PInt)), Field("y", App("B", PInt))>>),
      Alias("C", <<>>, App("B", App("A", PInt))),
      Distinct("C", <<>>, App("B", PBool)),
      Record("C", <<>>, <<Field("x", Ref("B")), Field("y", Ref("A"))>>),
      Record("C", <<"T">>, <<Field("x", App("B", Ref("T")))>>) }

\* Modules with functions and constants over a few type definitions.
SignatureTypes ==
    { <<>>,
      <<Record("A", <<>>, <<Field("x", PInt)>>)>>,
      <<Record("A", <<>>, <<Field("x", PInt), Field("x", PInt)>>),
        Record("A", <<>>, <<Field("x", PInt)>>)>>,
      <<Distinct("A", <<>>, PInt), Alias("B", <<>>, Ref("A"))>>,
      <<Record("A", <<"T">>, <<Field("x", Ref("T"))>>)>>,
      <<Alias("A", <<"T">>, OpenArrayRef(Ref("T")))>>,
      <<Record("A", <<"T", "U">>, <<Field("x", Ref("T")), Field("y", Ref("U"))>>)>>,
      <<Record("A", <<"T">>, <<Field("x", Ref("T"))>>),
        Record("B", <<"U">>, <<Field("y", App("A", Ref("U")))>>)>> }

Functions ==
    {Function(n, r, <<>>) :
        n \in {"f", "g"},
        r \in {PInt, Ref("A"), App("A", PInt), App2("A", PInt, PBool), App("B", PInt),
               App("A", Ref("Z"))}}
    \cup { Function("f", PInt, <<Field("p", Ref("A"))>>),
           Function("g", Ref("A"), <<Field("p", Ref("Z"))>>),
           Function("f", Ref("A"), <<Field("p", Ref("A")), Field("q", Ref("A"))>>) }

Constants ==
    {Field(n, r) : n \in {"k", "l"}, r \in {PInt, Ref("A"), Ref("Z"), App("A", PInt)}}

\* type_check is called on a module of one of four families:
\* wide (any MaxDefs one-field records), pair (a provider and a user, either
\* order), chain (three definitions, either order), signature (functions or
\* constants over a few definitions).
Init ==
    \/ \E k \in 0..MaxDefs : \E ts \in [1..k -> WideDefs] :
            Start(Mod(ts, <<>>, <<>>))
    \/ \E p \in Providers, u \in Users :
            Start(Mod(<<p, u>>, <<>>, <<>>)) \/ Start(Mod(<<u, p>>, <<>>, <<>>))
    \/ \E a \in ChainFirst, b \in ChainSecond, c \in ChainThird :
            Start(Mod(<<a, b, c>>, <<>>, <<>>)) \/ Start(Mod(<<c, b, a>>, <<>>, <<>>))
    \/ \E ts \in SignatureTypes : \E k \in 0..MaxFuncs : \E fs \in [1..k -> Functions] :
            Start(Mod(ts, fs, <<>>))
    \/ \E ts \in SignatureTypes,
          fs \in {<<>>, <<Function("f", Ref("A"), <<>>)>>,
                  <<Function("f", App("B", PInt), <<>>)>>} :
            \E k \in 0..MaxConsts : \E cs \in [1..k -> Constants] :
                Start(Mod(ts, fs, cs))

Spec == Init /\ [][Next]_vars

----------------------------------------------------------------------------
(* What a module declares, read off its text alone.                        *)

Done == pc = "done"

TypeIds == DOMAIN module.types

TypeNames == {module.types[i].name : i \in TypeIds}

\* The reference under its array constructors.
RECURSIVE Core(_)
Core(ref) == IF ref.k \in {"OpenArray", "Array"} THEN Core(ref.args[1]) ELSE ref

\* The names a reference mentions, at any depth.
RECURSIVE Mentions(_)
Mentions(ref) ==
    (IF ref.k = "Named" THEN {ref.name} ELSE {})
    \cup UNION {Mentions(ref.args[i]) : i \in DOMAIN ref.args}

\* The references of a definition's body, in order.
BodyRefs(def) == [i \in DOMAIN def.rhs |-> def.rhs[i].type_]

Dependencies(i) ==
    UNION {Mentions(module.types[i].rhs[k].type_) : k \in DOMAIN module.types[i].rhs}
    \ Range(module.types[i].generics)

SelfRecursive(i) == module.types[i].name \in Dependencies(i)

RepeatsGenericParameter(i) ==
    \E j, k \in DOMAIN module.types[i].generics :
        j # k /\ module.types[i].generics[j] = module.types[i].generics[k]

HasDuplicateField(i) ==
    /\ module.types[i].kind = "Record"
    /\ \E j, k \in DOMAIN module.types[i].rhs :
          j # k /\ module.types[i].rhs[j].name = module.types[i].rhs[k].name

\* The declarations that repeat the name of an earlier one.
RepeatedTypeDeclarations ==
    {i \in TypeIds : \E j \in 1..(i - 1) : module.types[j].name = module.types[i].name}

RepeatedFunctionName ==
    \E i, j \in DOMAIN module.functions :
        i # j /\ module.functions[i].name = module.functions[j].name

\* The dependency graph on the definitions and its strongly connected components.
RECURSIVE DependencyClosure(_)
DependencyClosure(S) ==
    LET T == S \cup {j \in TypeIds : \E i \in S : module.types[j].name \in Dependencies(i)}
    IN  IF T = S THEN S ELSE DependencyClosure(T)

Component(i) == {j \in DependencyClosure({i}) : i \in DependencyClosure({j})}

\* The errors of one kind in the returned list.
Reported(kind) == {k \in DOMAIN returned : returned[k].kind = kind}

\* es ends with tail.
EndsWith(es, tail) ==
    /\ Len(tail) <= Len(es)
    /\ \A k \in DOMAIN tail : es[Len(es) - Len(tail) + k] = tail[k]

\* The last step was op on an item and did not abort.
Stepped(op) == last.op = op /\ pc # "panicked"

----------------------------------------------------------------------------
(* C1  Interner canonicalization.                                          *)

\* C1: every pair add_type / add_or_get_type has returned is still in types,
\* and types is a bijection: equal Type values have equal handles, different
\* Type values have different handles, and no check of add_type has failed.
C1_InternerBijection ==
    /\ interned = types
    /\ \A p, q \in interned : (p.ty = q.ty) <=> (p.id = q.id)
    /\ ~assert_failed

\* A type-checked module in which one record type has two fields of the
\* same handle: the field type was requested twice, amid other types.
C1_Witness ==
    /\ Done /\ result = "Ok"
    /\ Cardinality(types) >= 3
    /\ \E p \in types :
          /\ p.ty.tag = "Record"
          /\ Len(p.ty.fields) = 2
          /\ p.ty.fields[1].type_ = p.ty.fields[2].type_

----------------------------------------------------------------------------
(* C2  Phase gating.                                                       *)

TypePhaseOps == {"dependency_stage", "mutual_recursion", "add_type_definition",
                 "end_type_definitions"}

\* A fault of the type definitions that the text of the module shows.
DeclaredTypeFault ==
    \/ RepeatedTypeDeclarations # {}
    \/ \E i \in TypeIds : SelfRecursive(i) \/ RepeatsGenericParameter(i) \/ HasDuplicateField(i)

\* Function i returns a type the module does not declare.
ReturnTypeUndeclared(i) ==
    /\ module.functions[i].ret_type.k = "Named"
    /\ module.functions[i].ret_type.args = <<>>
    /\ module.functions[i].ret_type.name \notin TypeNames

\* C2: an error of the type phase ends type_check with exactly the errors of
\* that phase, function_sigs and consts untouched and no FunctionRedefinition
\* or ConstantRedefinition reported; an error of the function phase ends it
\* before the constants; no error of a running phase is dropped; and every
\* function whose return type is undeclared has its error in the list returned.
C2_PhaseGating ==
    /\ (last.op \in {"dependency_stage", "end_type_definitions"} /\ last.errs # <<>>) =>
          /\ Done /\ result = "Err" /\ returned = last.errs
          /\ function_sigs = EmptyMap /\ consts = EmptyMap
          /\ Reported("FunctionRedefinition") = {} /\ Reported("ConstantRedefinition") = {}
    /\ DeclaredTypeFault =>
          /\ pc \notin {"add_function_signatures", "add_constants"}
          /\ last.op \in TypePhaseOps \cup {"start"}
          /\ function_sigs = EmptyMap /\ consts = EmptyMap
    /\ (Stepped("mutual_recursion") \/ Stepped("add_type_definition")
            \/ Stepped("add_function_signature") \/ Stepped("add_constant")) =>
          EndsWith(errs, last.errs)
    /\ (last.op = "end_function_signatures" /\ last.errs # <<>>) =>
          /\ Done /\ result = "Err" /\ returned = last.errs
          /\ consts = EmptyMap
          /\ Reported("ConstantRedefinition") = {}
    /\ (last.op = "end_function_signatures" /\ Done) =>
          \A i \in DOMAIN module.functions :
              ReturnTypeUndeclared(i) =>
                  \E k \in Reported("UndefinedType") :
                      returned[k].uses =
                          <<Loc("function", i, module.functions[i].ret_type.name)>>
    /\ (last.op = "end_constants") => returned = last.errs

\* type_check has returned the errors of the type phase for a module whose
\* functions repeat a name.
C2_Witness ==
    /\ Done /\ result = "Err"
    /\ last.op \in {"dependency_stage", "end_type_definitions"}
    /\ RepeatedFunctionName

----------------------------------------------------------------------------
(* C3  Redefinition batching.                                              *)

\* The same type name twice, the same function name twice, a duplicate field.
RedefinesAllThree ==
    /\ RepeatedTypeDeclarations # {}
    /\ RepeatedFunctionName
    /\ \E i \in TypeIds : HasDuplicateField(i)

\* C3 as stated: such a module returns a TypeRedefinition, a
\* FunctionRedefinition and a FieldRedefinition.
C3_AllThreeReported ==
    (Done /\ RedefinesAllThree) =>
        /\ result = "Err"
        /\ Reported("TypeRedefinition") # {}
        /\ Reported("FunctionRedefinition") # {}
        /\ Reported("FieldRedefinition") # {}

\* C3 amended: such a module returns one TypeRedefinition for each repeated
\* declaration of a type name, and no FunctionRedefinition.
C3_TypeRedefinitionsReported ==
    (Done /\ RedefinesAllThree) =>
        /\ result = "Err"
        /\ \A i \in RepeatedTypeDeclarations :
              Cardinality({k \in Reported("TypeRedefinition") : returned[k].at = i}) = 1
        /\ Cardinality(Reported("TypeRedefinition")) = Cardinality(RepeatedTypeDeclarations)
        /\ Reported("FunctionRedefinition") = {}

\* A module with all three repetitions has been checked and its repeated
\* type name reported.
C3_Witness ==
    /\ Done /\ RedefinesAllThree
    /\ Reported("TypeRedefinition") # {}

----------------------------------------------------------------------------
(* C4  Mutual recursion detection.                                         *)

\* No fault at all: non-generic records with distinct names and field names,
\* referring only to declared names, and nothing but type definitions.
FaultFreeRecords ==
    /\ RepeatedTypeDeclarations = {}
    /\ module.functions = <<>> /\ module.consts = <<>>
    /\ \A i \in TypeIds :
          /\ module.types[i].kind = "Record" /\ module.types[i].generics = <<>>
          /\ ~HasDuplicateField(i) /\ ~SelfRecursive(i)
          /\ \A k \in DOMAIN module.types[i].rhs :
                \/ module.types[i].rhs[k].type_.k = "Primitive"
                \/ /\ module.types[i].rhs[k].type_.k = "Named"
                   /\ module.types[i].rhs[k].type_.args = <<>>
                   /\ module.types[i].rhs[k].type_.name \in TypeNames

\* C4 as stated: in a module of distinctly named definitions, every
\* component of more than one definition is reported by one
\* MutuallyRecursiveTypeDefinitions listing its members, and an acyclic
\* module without another fault succeeds.
C4_MutualRecursionReported ==
    Done =>
        /\ \A i \in TypeIds :
              (RepeatedTypeDeclarations = {} /\ Cardinality(Component(i)) > 1) =>
                  /\ result = "Err"
                  /\ Cardinality({k \in Reported("MutuallyRecursiveTypeDefinitions") :
                                      returned[k].members = Component(i)}) = 1
        /\ (FaultFreeRecords /\ \A i \in TypeIds : Component(i) = {i}) => result = "Ok"

----------------------------------------------------------------------------
(* C5  Self-recursion detection.                                           *)

RecursionReported(i) ==
    \E k \in Reported("RecursiveTypeDefinition") :
        returned[k].at = i /\ returned[k].name = module.types[i].name

----------------------------------------------------------------------------
(* C6  Distinct nominal separation.                                        *)

\* The non-generic Record and Distinct definitions.
Nominal == {i \in TypeIds : module.types[i].generics = <<>>
                            /\ module.types[i].kind \in {"Record", "Distinct"}}

\* C6: after a successful type_check, two non-generic Record or Distinct
\* definitions with different names have different handles in
\* complete_types, and the interner maps these to different Type values.
C6_NominalSeparation ==
    (Done /\ result = "Ok") =>
        \A i, j \in Nominal :
            module.types[i].name # module.types[j].name =>
                /\ module.types[i].name \in DOMAIN complete_types
                /\ module.types[j].name \in DOMAIN complete_types
                /\ complete_types[module.types[i].name] # complete_types[module.types[j].name]
                /\ \E p, q \in types :
                      /\ p.id = complete_types[module.types[i].name]
                      /\ q.id = complete_types[module.types[j].name]
                      /\ p.ty # q.ty

\* Two records of different names and the same fields, type-checked.
C6_Witness ==
    /\ Done /\ result = "Ok"
    /\ \E i, j \in Nominal :
          /\ module.types[i].name # module.types[j].name
          /\ module.types[i].kind = "Record" /\ module.types[j].kind = "Record"
          /\ module.types[i].rhs = module.types[j].rhs

----------------------------------------------------------------------------
(* C7  Generic arity and substitution.                                     *)

\* The references an item resolves or validates one by one, whatever the
\* outcome of the others: the fields of a record, the target of an alias or
\* a distinct, the return type of a function, the type of a constant.
ItemRefs ==
    CASE last.op = "add_type_definition" -> Range(BodyRefs(module.types[last.item]))
      [] last.op = "add_function_signature" -> {module.functions[last.item].ret_type}
      [] last.op = "add_constant" -> {module.consts[last.item].type_}
      [] OTHER -> {}

\* The generic parameters in scope of the item of the last step.
ItemGenerics ==
    IF last.op = "add_type_definition" THEN Range(module.types[last.item].generics) ELSE {}

\* The item of the last step, as the location of its references.
ItemOwner ==
    CASE last.op = "add_type_definition" -> Owner("type", last.item)
      [] last.op = "add_function_signature" -> Owner("function", last.item)
      [] OTHER -> Owner("const", last.item)

\* ref names a registered definition with the wrong number of arguments.
WrongArity(ref) ==
    /\ ref.k = "Named"
    /\ ref.name \notin ItemGenerics
    /\ ref.name \in DOMAIN defs
    /\ Len(ref.args) # Len(module.types[defs[ref.name]].generics)

ArityReported(ref) ==
    \E k \in DOMAIN last.errs :
        /\ last.errs[k].kind = "MismatchedNumberGenericArgs"
        /\ last.errs[k].name = ref.name
        /\ last.errs[k].given = Len(ref.args)
        /\ last.errs[k].expected = Len(module.types[defs[ref.name]].generics)

\* The arguments of ref resolve in the Context the item ended with (a generic
\* body is validated, and validation looks at the arity first).
ArgumentsResolve(ref) ==
    \/ ItemGenerics # {}
    \/ ty_ref_generics(Self, ItemOwner, ref.args, EmptyMap, <<>>).st = "ok"

\* A resolved type as a tree, handles followed through the interner.
Tree(tag, size, distinct_id, kids) ==
    [tag |-> tag, size |-> size, distinct_id |-> distinct_id, kids |-> kids]

Kid(name, tree) == [name |-> name, tree |-> tree]

NoTree == Tree("none", 0, 0, <<>>)

RECURSIVE Expand(_)
Expand(id) ==
    IF ~\E p \in types : p.id = id THEN NoTree
    ELSE LET ty == (CHOOSE p \in types : p.id = id).ty IN
         CASE ty.tag = "Record" ->
                Tree("Record", 0, 0,
                     [k \in DOMAIN ty.fields |->
                        Kid(ty.fields[k].name, Expand(ty.fields[k].type_))])
           [] ty.tag \in {"OpenArray", "Array", "Distinct"} ->
                Tree(ty.tag, ty.size, ty.distinct_id, <<Kid("", Expand(ty.base))>>)
           [] OTHER -> Tree(ty.tag, 0, 0, <<>>)

\* The type a reference denotes when every parameter name stands for the
\* tree env gives it: the body of a generic definition read with its
\* parameters replaced by the arguments, the arguments read in the scope
\* of the reference.
RECURSIVE Denote(_, _)
Denote(ref, env) ==
    CASE ref.k = "Primitive" -> Tree(ref.name, 0, 0, <<>>)
      [] ref.k = "OpenArray" -> Tree("OpenArray", 0, 0, <<Kid("", Denote(ref.args[1], env))>>)
      [] ref.k = "Array" -> Tree("Array", ref.size, 0, <<Kid("", Denote(ref.args[1], env))>>)
      [] ref.k = "Named" ->
            IF ref.name \in DOMAIN env THEN env[ref.name]
            ELSE IF ref.args = <<>> /\ ref.name \in DOMAIN complete_types
            THEN Expand(complete_types[ref.name])
            ELSE IF ref.name \notin DOMAIN defs THEN NoTree
            ELSE LET def == module.types[defs[ref.name]]
                     inner == [n \in Range(def.generics) |->
                                Denote(ref.args[CHOOSE k \in DOMAIN def.generics :
                                                    def.generics[k] = n], env)]
                 IN  IF Len(def.generics) # Len(ref.args) \/ def.generics = <<>> THEN NoTree
                     ELSE IF def.kind = "Alias" THEN Denote(def.rhs[1].type_, inner)
                     ELSE IF ref.name \notin DOMAIN generic_distinct_ids THEN NoTree
                     ELSE IF def.kind = "Distinct"
                     THEN Tree("Distinct", 0, generic_distinct_ids[ref.name],
                               <<Kid("", Denote(def.rhs[1].type_, inner))>>)
                     ELSE Tree("Distinct", 0, generic_distinct_ids[ref.name],
                               <<Kid("", Tree("Record", 0, 0,
                                    [k \in DOMAIN def.rhs |->
                                        Kid(def.rhs[k].name,
                                            Denote(def.rhs[k].type_, inner))]))>>)

\* The item of the last step succeeded and registered the handles of what
\* its references denote.
DenotedBy(op) ==
    CASE op = "add_constant" ->
            Expand(consts[module.consts[last.item].name].type_)
                = Denote(module.consts[last.item].type_, EmptyMap)
      [] op = "add_function_signature" ->
            LET fun == module.functions[last.item]
                sig == function_sigs[fun.name]
            IN  /\ Expand(sig.ret) = Denote(fun.ret_type, EmptyMap)
                /\ Len(sig.args) = Len(fun.args)
                /\ \A k \in DOMAIN fun.args :
                      Expand(sig.args[k].type_) = Denote(fun.args[k].type_, EmptyMap)
      [] op = "add_type_definition" ->
            LET def == module.types[last.item]
                got == Expand(complete_types[def.name])
            IN  CASE def.kind = "Alias" -> got = Denote(def.rhs[1].type_, EmptyMap)
                  [] def.kind = "Distinct" ->
                        got = Tree("Distinct", 0, last.self.distinct_counter,
                                   <<Kid("", Denote(def.rhs[1].type_, EmptyMap))>>)
                  [] def.kind = "Record" ->
                        got = Tree("Distinct", 0, last.self.distinct_counter,
                                   <<Kid("", Tree("Record", 0, 0,
                                        [k \in DOMAIN def.rhs |->
                                            Kid(def.rhs[k].name,
                                                Denote(def.rhs[k].type_, EmptyMap))]))>>)

\* The last step resolved its item without an error.
Resolved(op) ==
    /\ Stepped(op)
    /\ last.errs = <<>>
    /\ op = "add_type_definition" => module.types[last.item].generics = <<>>

ItemOps == {"add_type_definition", "add_function_signature", "add_constant"}

----------------------------------------------------------------------------
(* C8  Higher-kinded rejection.                                            *)

\* The last step registered a generic definition.
RegisteredGeneric ==
    /\ Stepped("add_type_definition")
    /\ module.types[last.item].generics # <<>>

\* Somewhere in ref a generic parameter is given arguments.
RECURSIVE AppliesParameter(_, _)
AppliesParameter(ref, generics) ==
    \/ ref.k = "Named" /\ ref.name \in generics /\ ref.args # <<>>
    \/ \E k \in DOMAIN ref.args : AppliesParameter(ref.args[k], generics)

\* ref is well formed in a generic body: parameters bare, registered
\* definitions applied to as many well-formed arguments as they declare.
RECURSIVE WellFormed(_, _)
WellFormed(ref, generics) ==
    CASE ref.k = "Primitive" -> TRUE
      [] ref.k \in {"OpenArray", "Array"} -> WellFormed(ref.args[1], generics)
      [] ref.k = "Named" ->
            IF ref.name \in generics THEN ref.args = <<>>
            ELSE /\ ref.name \in DOMAIN defs
                 /\ Len(ref.args) = Len(module.types[defs[ref.name]].generics)
                 /\ \A k \in DOMAIN ref.args : WellFormed(ref.args[k], generics)

\* The parameter whose application is the first fault of ref, reading
\* outside in and left to right; "" when ref has no fault or another
\* fault comes first.
RECURSIVE FirstApplied(_, _)
FirstApplied(ref, generics) ==
    CASE ref.k = "Primitive" -> ""
      [] ref.k \in {"OpenArray", "Array"} -> FirstApplied(ref.args[1], generics)
      [] ref.k = "Named" ->
            IF ref.name \in generics THEN (IF ref.args # <<>> THEN ref.name ELSE "")
            ELSE IF ref.name \notin DOMAIN defs
                    \/ Len(ref.args) # Len(module.types[defs[ref.name]].generics)
            THEN ""
            ELSE LET bad == {k \in DOMAIN ref.args : ~WellFormed(ref.args[k], generics)} IN
                 IF bad = {} THEN ""
                 ELSE FirstApplied(ref.args[CHOOSE k \in bad : \A j \in bad : k <= j], generics)

HigherKindedReported(name) ==
    \E k \in DOMAIN last.errs :
        /\ last.errs[k].kind = "HigherKindedGenericTypeUsed"
        /\ last.errs[k].name = name
        /\ last.errs[k].loc = Loc("type", last.item, name)

\* C8 as stated: a generic definition whose body gives arguments to one of
\* its parameters, anywhere, fails registration with
\* HigherKindedGenericTypeUsed.
C8_HigherKindedAlwaysReported ==
    RegisteredGeneric =>
        \A ref \in ItemRefs :
            AppliesParameter(ref, ItemGenerics) =>
                \E k \in DOMAIN last.errs : last.errs[k].kind = "HigherKindedGenericTypeUsed"

\* C8 amended: registration fails with HigherKindedGenericTypeUsed for the
\* parameter whenever the application is the first fault of its field or
\* target (no enclosing reference has the wrong arity and no argument to its
\* left is faulty); and a body whose references are all well formed, bare
\* parameters included, is accepted.
C8_HigherKindedRejected ==
    RegisteredGeneric =>
        /\ \A ref \in ItemRefs :
              FirstApplied(ref, ItemGenerics) # "" =>
                  HigherKindedReported(FirstApplied(ref, ItemGenerics))
        /\ ((\A ref \in ItemRefs : WellFormed(ref, ItemGenerics))
                /\ ~HasDuplicateField(last.item)) => last.errs = <<>>
        /\ (\E k \in DOMAIN last.errs : last.errs[k].kind = "HigherKindedGenericTypeUsed")
              => \E ref \in ItemRefs : AppliesParameter(ref, ItemGenerics)

\* A generic definition applying its parameter inside the argument of
\* another definition, rejected for it.
C8_Witness ==
    /\ RegisteredGeneric
    /\ \E ref \in ItemRefs :
          /\ Core(ref).k = "Named"
          /\ Core(ref).name \notin ItemGenerics
          /\ FirstApplied(ref, ItemGenerics) # ""
          /\ HigherKindedReported(FirstApplied(ref, ItemGenerics))

----------------------------------------------------------------------------
(* C9  Sibling items are not suppressed.                                   *)

\* Definition i has no fault the dependency graph shows.
SoundInGraph(i) ==
    /\ ~SelfRecursive(i) /\ ~RepeatsGenericParameter(i)
    /\ Dependencies(i) \subseteq TypeNames
    /\ Component(i) = {i}

\* C9 as stated: in a module of distinctly named definitions, whatever is
\* wrong with the other definitions, every record with a duplicate field
\* (and no other fault) gets its FieldRedefinition and every component of
\* more than one definition its MutuallyRecursiveTypeDefinitions.
C9_SiblingsReported ==
    (Done /\ RepeatedTypeDeclarations = {}) =>
        /\ \A i \in TypeIds :
              (HasDuplicateField(i) /\ SoundInGraph(i)) =>
                  \E k \in Reported("FieldRedefinition") : returned[k].at = i
        /\ \A i \in TypeIds :
              Cardinality(Component(i)) > 1 =>
                  \E k \in Reported("MutuallyRecursiveTypeDefinitions") :
                      i \in returned[k].members

----------------------------------------------------------------------------
(* C10  Idempotent caching.                                                *)

\* ref names, without arguments, a definition the Context the last step
\* started from holds as complete.
Cached(ref) ==
    /\ ref.k = "Named" /\ ref.args = <<>>
    /\ ref.name \in DOMAIN last.self.complete_types

CachedHandle(ref) == last.self.complete_types[ref.name]

\* C10: a constant, a function or a non-generic record whose references all
\* name complete definitions is resolved without a failure of resolution,
\* each reference to the handle complete_types holds; the constant and the
\* function add nothing to the interner and leave distinct_counter, the
\* record adds its own two types only and takes one distinct id.
C10_CachedResolution ==
    /\ (last.op = "add_constant" /\ Cached(module.consts[last.item].type_)) =>
          LET def == module.consts[last.item] IN
          /\ pc # "panicked"
          /\ types = last.self.types
          /\ distinct_counter = last.self.distinct_counter
          /\ IF def.name \in DOMAIN last.self.consts
             THEN Kinds(last.errs) = {"ConstantRedefinition"}
             ELSE /\ last.errs = <<>>
                  /\ consts[def.name].type_ = CachedHandle(def.type_)
    /\ (/\ last.op = "add_function_signature"
        /\ Cached(module.functions[last.item].ret_type)
        /\ \A k \in DOMAIN module.functions[last.item].args :
              Cached(module.functions[last.item].args[k].type_)) =>
          LET fun == module.functions[last.item] IN
          /\ pc # "panicked"
          /\ types = last.self.types
          /\ distinct_counter = last.self.distinct_counter
          /\ IF fun.name \in DOMAIN last.self.function_sigs
             THEN Kinds(last.errs) = {"FunctionRedefinition"}
             ELSE /\ last.errs = <<>>
                  /\ function_sigs[fun.name].ret = CachedHandle(fun.ret_type)
                  /\ function_sigs[fun.name].args =
                        [k \in DOMAIN fun.args |->
                            Field(fun.args[k].name, CachedHandle(fun.args[k].type_))]
    /\ (/\ last.op = "add_type_definition"
        /\ module.types[last.item].generics = <<>>
        /\ module.types[last.item].kind = "Record"
        /\ ~HasDuplicateField(last.item)
        /\ \A k \in DOMAIN module.types[last.item].rhs :
              Cached(module.types[last.item].rhs[k].type_)) =>
          LET def == module.types[last.item]
              record == TRecord([k \in DOMAIN def.rhs |->
                            Field(def.rhs[k].name, CachedHandle(def.rhs[k].type_))])
          IN
          /\ pc # "panicked"
          /\ last.errs = <<>>
          /\ distinct_counter = last.self.distinct_counter + 1
          /\ \E inner \in 0..Cardinality(types) :
                types = last.self.types
                          \cup {[ty |-> record, id |-> inner],
                                [ty |-> TDistinct(last.self.distinct_counter, inner),
                                 id |-> complete_types[def.name]]}

\* A record with two fields of the same complete type has been registered.
C10_Witness ==
    /\ Stepped("add_type_definition")
    /\ last.errs = <<>>
    /\ module.types[last.item].generics = <<>>
    /\ module.types[last.item].kind = "Record"
    /\ Len(module.types[last.item].rhs) = 2
    /\ Cached(module.types[last.item].rhs[1].type_)
    /\ module.types[last.item].rhs[1].type_ = module.types[last.item].rhs[2].type_

----------------------------------------------------------------------------
(* C11  Redefinition policy for signatures.                                *)

\* The function (constant) of the last step had its name in the table the
\* step started from.
FunctionNameTaken ==
    /\ Stepped("add_function_signature")
    /\ module.functions[last.item].name \in DOMAIN last.self.function_sigs

ConstantNameTaken ==
    /\ Stepped("add_constant")
    /\ module.consts[last.item].name \in DOMAIN last.self.consts

\* Every type the function i mentions resolves in the Context of the
\* function phase (the tables of the type phase no longer change).
FunctionResolves(i) ==
    /\ ty_ref(Self, Owner("function", i), module.functions[i].ret_type, EmptyMap).st = "ok"
    /\ \A k \in DOMAIN module.functions[i].args :
          ty_ref(Self, Owner("function", i), module.functions[i].args[k].type_,
                 EmptyMap).st = "ok"

ConstantResolves(i) ==
    ty_ref(Self, Owner("const", i), module.consts[i].type_, EmptyMap).st = "ok"

\* C11 as stated: a function (constant) whose name already has an entry
\* gets FunctionRedefinition (ConstantRedefinition).
C11_ClashAlwaysReported ==
    /\ FunctionNameTaken => Kinds(last.errs) = {"FunctionRedefinition"}
    /\ ConstantNameTaken => Kinds(last.errs) = {"ConstantRedefinition"}

\* C11 amended: a function (constant) whose name already has an entry fails
\* and leaves the table as it was, with FunctionRedefinition
\* (ConstantRedefinition) naming the earlier and the later definition when
\* its own types resolve and with the error of the resolution otherwise; a
\* name without an entry gets the entry of this item when it resolves; and
\* at the end of the phase each name maps to the first definition of that
\* name that resolves.
C11_RedefinitionPolicy ==
    /\ FunctionNameTaken =>
          /\ function_sigs = last.self.function_sigs
          /\ Len(last.errs) = 1
          /\ IF FunctionResolves(last.item)
             THEN last.errs[1] =
                    FunctionRedefinition(module.functions[last.item].name,
                        last.self.function_sigs[module.functions[last.item].name].func_id,
                        last.item)
             ELSE last.errs[1].kind \notin {"FunctionRedefinition", "none"}
    /\ ConstantNameTaken =>
          /\ consts = last.self.consts
          /\ Len(last.errs) = 1
          /\ IF ConstantResolves(last.item)
             THEN last.errs[1] =
                    ConstantRedefinition(module.consts[last.item].name,
                        last.self.consts[module.consts[last.item].name].const_id,
                        last.item)
             ELSE last.errs[1].kind \notin {"ConstantRedefinition", "none"}
    /\ (Stepped("add_function_signature") /\ ~FunctionNameTaken) =>
          IF last.errs = <<>>
          THEN /\ DOMAIN function_sigs =
                    DOMAIN last.self.function_sigs \cup {module.functions[last.item].name}
               /\ function_sigs[module.functions[last.item].name].func_id = last.item
               /\ \A n \in DOMAIN last.self.function_sigs :
                     function_sigs[n] = last.self.function_sigs[n]
          ELSE function_sigs = last.self.function_sigs
    /\ (Stepped("add_constant") /\ ~ConstantNameTaken) =>
          IF last.errs = <<>>
          THEN /\ DOMAIN consts = DOMAIN last.self.consts \cup {module.consts[last.item].name}
               /\ consts[module.consts[last.item].name].const_id = last.item
               /\ \A n \in DOMAIN last.self.consts : consts[n] = last.self.consts[n]
          ELSE consts = last.self.consts
    /\ last.op = "end_function_signatures" =>
          \A i \in DOMAIN module.functions :
              FunctionResolves(i) =>
                  /\ module.functions[i].name \in DOMAIN function_sigs
                  /\ function_sigs[module.functions[i].name].func_id <= i
                  /\ FunctionResolves(function_sigs[module.functions[i].name].func_id)
    /\ last.op = "end_constants" =>
          \A i \in DOMAIN module.consts :
              ConstantResolves(i) =>
                  /\ module.consts[i].name \in DOMAIN consts
                  /\ consts[module.consts[i].name].const_id <= i
                  /\ ConstantResolves(consts[module.consts[i].name].const_id)

\* A function repeating the name of an earlier one with another return type
\* has been refused, and so has a constant repeating a name with another type.
C11_Witness ==
    \/ /\ FunctionNameTaken
       /\ Kinds(last.errs) = {"FunctionRedefinition"}
       /\ module.functions[last.item].ret_type
            # module.functions[last.errs[1].prev].ret_type
    \/ /\ ConstantNameTaken
       /\ Kinds(last.errs) = {"ConstantRedefinition"}
       /\ module.consts[last.item].type_ # module.consts[last.errs[1].prev].type_

----------------------------------------------------------------------------
(* C12  Success populates the context.                                     *)

\* The definitions that declare generic parameters.
GenericIds == {i \in TypeIds : module.types[i].generics # <<>>}

\* C12: an error pushed in a phase is never followed by Ok, and Err comes
\* with a non-empty list; when type_check returns Ok no error is pending,
\* the type names are pairwise different, defs maps each of them to its
\* definition, complete_types holds exactly the non-generic names (each with
\* an interned handle), generic_distinct_ids exactly the names of the
\* generic Distinct and Record definitions, function_sigs exactly the
\* function names and consts exactly the constant names.
C12_SuccessPopulates ==
    /\ errs # <<>> => result # "Ok"
    /\ (last.op \in ItemOps \cup {"dependency_stage", "mutual_recursion"}
            /\ last.errs # <<>>) => result # "Ok"
    /\ (Done /\ result = "Err") => returned # <<>>
    /\ (Done /\ result = "Ok") =>
          /\ returned = <<>> /\ errs = <<>>
          /\ RepeatedTypeDeclarations = {}
          /\ DOMAIN defs = TypeNames
          /\ \A i \in TypeIds : defs[module.types[i].name] = i
          /\ DOMAIN complete_types = {module.types[i].name : i \in TypeIds \ GenericIds}
          /\ \A n \in DOMAIN complete_types : \E p \in types : p.id = complete_types[n]
          /\ DOMAIN generic_distinct_ids =
                {module.types[i].name :
                    i \in {j \in GenericIds : module.types[j].kind \in {"Distinct", "Record"}}}
          /\ DOMAIN function_sigs = {module.functions[i].name : i \in DOMAIN module.functions}
          /\ DOMAIN consts = {module.consts[i].name : i \in DOMAIN module.consts}

\* type_check has returned Ok for a module with a generic Record or
\* Distinct definition and a constant.
C12_Witness ==
    /\ Done /\ result = "Ok"
    /\ DOMAIN generic_distinct_ids # {}
    /\ DOMAIN consts # {}

----------------------------------------------------------------------------
(* C13  Order independence of registration.                                *)
(* add_type_definition applied to the singleton components in any order:   *)
(* the specification SpecAnyOrder differs from Spec in that step only.     *)

\* add_type_definition(id) returned r for the component at place k.
TypeDefinitionAddedAt(k, id, r) ==
    /\ SetContext(r.self)
    /\ last' = Step("add_type_definition", id, r.errs)
    /\ IF r.st = "panic"
       THEN /\ pc' = "panicked"
            /\ UNCHANGED <<errs, groups>>
       ELSE /\ errs' = errs \o r.errs
            /\ groups' = SubSeq(groups, 1, k - 1) \o SubSeq(groups, k + 1, Len(groups))
            /\ pc' = pc

\* The singleton component at place k is registered, whatever k.
TypeDefinitionAt(k) ==
    /\ Cardinality(groups[k]) = 1
    /\ TypeDefinitionAddedAt(k, group_id(groups[k]),
                             add_type_definition(Self, group_id(groups[k])))

AddTypeDefinitionAnyOrder ==
    /\ pc = "groups"
    /\ \E k \in DOMAIN groups : TypeDefinitionAt(k)
    /\ UNCHANGED <<module, result, returned, cursor>>

NextAnyOrder ==
    \/ DependencyStage
    \/ MutualRecursionGroup
    \/ AddTypeDefinitionAnyOrder
    \/ EndTypeDefinitions
    \/ AddFunctionSignature
    \/ EndFunctionSignatures
    \/ AddConstant
    \/ EndConstants

SpecAnyOrder == Init /\ [][NextAnyOrder]_vars

\* The declaration of a name (the first, when the module repeats it).
Declared(name) ==
    module.types[CHOOSE i \in TypeIds :
                    /\ module.types[i].name = name
                    /\ \A j \in TypeIds : module.types[j].name = name => i <= j]

\* ref is well formed by the text of the module: parameters bare, declared
\* names applied to as many well-formed arguments as they declare.
RECURSIVE WellFormedText(_, _)
WellFormedText(ref, generics) ==
    CASE ref.k = "Primitive" -> TRUE
      [] ref.k \in {"OpenArray", "Array"} -> WellFormedText(ref.args[1], generics)
      [] ref.k = "Named" ->
            IF ref.name \in generics THEN ref.args = <<>>
            ELSE /\ ref.name \in TypeNames
                 /\ Len(ref.args) = Len(Declared(ref.name).generics)
                 /\ \A k \in DOMAIN ref.args : WellFormedText(ref.args[k], generics)

\* The type definitions have no fault of their own: only the order of
\* registration can make one fail.
TypesFaultFree ==
    /\ RepeatedTypeDeclarations = {}
    /\ \A i \in TypeIds :
          /\ ~RepeatsGenericParameter(i) /\ ~HasDuplicateField(i)
          /\ Component(i) = {i} /\ ~SelfRecursive(i)
          /\ \A k \in DOMAIN module.types[i].rhs :
                WellFormedText(module.types[i].rhs[k].type_, Range(module.types[i].generics))

\* Every definition that i depends on, directly or not, was registered
\* before the last step.
DependenciesRegistered(i) ==
    \A j \in DependencyClosure({i}) \ {i} :
        IF module.types[j].generics = <<>>
        THEN module.types[j].name \in DOMAIN last.self.complete_types
        ELSE /\ module.types[j].name \in DOMAIN last.self.defs
             /\ module.types[j].kind # "Alias" =>
                    module.types[j].name \in DOMAIN last.self.generic_distinct_ids

\* C13 as stated: in a module whose definitions have no fault, every
\* registration succeeds in whatever order the definitions are registered,
\* and the phase ends in success.
C13_AnyOrderSucceeds ==
    TypesFaultFree =>
        /\ last.op = "add_type_definition" => (pc # "panicked" /\ last.errs = <<>>)
        /\ last.op = "end_type_definitions" => last.errs = <<>>

\* C13 amended: a definition registered after all the definitions it
\* depends on is registered without error in whatever order those and the
\* unrelated definitions came; one registered before a definition it depends
\* on can only fail with UndefinedType or abort.
C13_DependencyOrder ==
    (TypesFaultFree /\ last.op = "add_type_definition") =>
        /\ DependenciesRegistered(last.item) =>
              /\ pc # "panicked"
              /\ last.errs = <<>>
              /\ module.types[last.item].name \in DOMAIN defs
              /\ module.types[last.item].generics = <<>> =>
                    module.types[last.item].name \in DOMAIN complete_types
        /\ Kinds(last.errs) \subseteq {"UndefinedType"}

\* A definition with dependencies has been registered after them and before
\* an unrelated definition that the postorder of the components puts first.
C13_Witness ==
    /\ Stepped("add_type_definition")
    /\ TypesFaultFree
    /\ Dependencies(last.item) # {}
    /\ DependenciesRegistered(last.item)
    /\ last.errs = <<>>
    /\ \E j \in 1..(last.item - 1) :
          /\ module.types[j].name \notin DOMAIN defs
          /\ \A k \in 1..j : last.item \notin DependencyClosure({k})

----------------------------------------------------------------------------
(* C14  A failed item is not registered.                                   *)

\* The name of the item of the last step.
ItemName ==
    CASE last.op = "add_type_definition" -> module.types[last.item].name
      [] last.op = "add_function_signature" -> module.functions[last.item].name
      [] last.op = "add_constant" -> module.consts[last.item].name
      [] OTHER -> ""

\* The tables that gained an entry for name in the last step.
Gained(name) ==
    {t \in {"defs", "complete_types", "generic_distinct_ids", "function_sigs", "consts"} :
        CASE t = "defs" -> name \in DOMAIN defs \ DOMAIN last.self.defs
          [] t = "complete_types" ->
                name \in DOMAIN complete_types \ DOMAIN last.self.complete_types
          [] t = "generic_distinct_ids" ->
                name \in DOMAIN generic_distinct_ids \ DOMAIN last.self.generic_distinct_ids
          [] t = "function_sigs" ->
                name \in DOMAIN function_sigs \ DOMAIN last.self.function_sigs
          [] t = "consts" -> name \in DOMAIN consts \ DOMAIN last.self.consts}

\* C14: when the registration of an item fails, the Context gains no entry
\* for the item's name in defs, complete_types, generic_distinct_ids,
\* function_sigs or consts, and the phase goes on with the remaining items.
C14_FailedItemNotRegistered ==
    (last.op \in ItemOps /\ pc # "panicked" /\ last.errs # <<>>) =>
        /\ Gained(ItemName) = {}
        /\ pc \in {"groups", "add_function_signatures", "add_constants"}

----------------------------------------------------------------------------
(* C15  Generic registration only validates.                               *)

\* C15: registering a definition with generic parameters leaves the
\* interner and complete_types as they were; a Distinct or Record body takes
\* one fresh distinct-id, kept in generic_distinct_ids under the name of the
\* definition; an Alias body leaves distinct_counter and generic_distinct_ids
\* as they were.
C15_GenericOnlyValidates ==
    (Stepped("add_type_definition") /\ module.types[last.item].generics # <<>>) =>
        /\ types = last.self.types
        /\ interned = last.self.interned
        /\ complete_types = last.self.complete_types
        /\ module.types[last.item].kind \in {"Distinct", "Record"} =>
              /\ distinct_counter = last.self.distinct_counter + 1
              /\ generic_distinct_ids =
                    Put(last.self.generic_distinct_ids, module.types[last.item].name,
                        last.self.distinct_counter)
              /\ last.self.distinct_counter \notin Range(last.self.generic_distinct_ids)
              /\ \A p \in last.self.interned :
                    p.ty.tag = "Distinct" => p.ty.distinct_id # last.self.distinct_counter
        /\ module.types[last.item].kind = "Alias" =>
              /\ distinct_counter = last.self.distinct_counter
              /\ generic_distinct_ids = last.self.generic_distinct_ids

\* A generic record and a generic alias have been registered after a
\* complete type that holds a distinct-id, and the generic just registered
\* mentions an earlier definition.
C15_Witness ==
    /\ Stepped("add_type_definition")
    /\ module.types[last.item].generics # <<>>
    /\ last.errs = <<>>
    /\ last.self.types # {}
    /\ Dependencies(last.item) # {}
    /\ \E i, j \in GenericIds :
          /\ module.types[i].kind = "Alias" /\ module.types[j].kind # "Alias"
          /\ {module.types[i].name, module.types[j].name} \subseteq DOMAIN defs

----------------------------------------------------------------------------
(* C16  Generic instantiation is canonical.                                *)

\* The type interned under handle h in the Context self.
TypeAt(self, h) == (CHOOSE p \in self.types : p.id = h).ty

\* ref applies a registered generic Distinct or Record definition.
Instantiates(self, ref) ==
    /\ ref.k = "Named" /\ ref.args # <<>>
    /\ ref.name \in DOMAIN self.defs
    /\ module.types[self.defs[ref.name]].generics # <<>>
    /\ module.types[self.defs[ref.name]].kind \in {"Distinct", "Record"}

\* The references the registered items hold outside any generic scope,
\* each with the handle the Context self keeps for it: the return types of
\* the functions, the types of the constants, the targets of the complete
\* aliases and distincts, the fields of the complete records.
Held(self) ==
    {[ref |-> module.functions[self.function_sigs[f].func_id].ret_type,
      id |-> self.function_sigs[f].ret] : f \in DOMAIN self.function_sigs}
    \cup {[ref |-> module.consts[self.consts[c].const_id].type_,
           id |-> self.consts[c].type_] : c \in DOMAIN self.consts}
    \cup {[ref |-> module.types[self.defs[n]].rhs[1].type_, id |-> self.complete_types[n]] :
            n \in {m \in DOMAIN self.complete_types :
                      module.types[self.defs[m]].kind = "Alias"}}
    \cup {[ref |-> module.types[self.defs[n]].rhs[1].type_,
           id |-> TypeAt(self, self.complete_types[n]).base] :
            n \in {m \in DOMAIN self.complete_types :
                      module.types[self.defs[m]].kind = "Distinct"}}
    \cup UNION {{[ref |-> module.types[self.defs[n]].rhs[k].type_,
                  id |-> TypeAt(self, TypeAt(self, self.complete_types[n]).base).fields[k].type_] :
                    k \in DOMAIN module.types[self.defs[n]].rhs} :
                n \in {m \in DOMAIN self.complete_types :
                          module.types[self.defs[m]].kind = "Record"}}

\* The instantiations of generic Distinct and Record definitions among them.
Instances(self) == {x \in Held(self) : Instantiates(self, x.ref)}

\* What an instantiation was built from: the handle of the instantiated
\* inner type, or the instantiated field list.
Inner(x) ==
    IF module.types[defs[x.ref.name]].kind = "Record"
    THEN TypeAt(Self, TypeAt(Self, x.id).base).fields
    ELSE <<TypeAt(Self, x.id).base>>

\* The reference the last step resolved for a function without arguments
\* or a constant, with the handle it registered.
Registered ==
    IF last.op = "add_constant"
    THEN [ref |-> module.consts[last.item].type_,
          id |-> consts[module.consts[last.item].name].type_]
    ELSE [ref |-> module.functions[last.item].ret_type,
          id |-> function_sigs[module.functions[last.item].name].ret]

\* The last step registered a function without arguments or a constant.
RegisteredInstance ==
    /\ \/ Stepped("add_constant")
       \/ Stepped("add_function_signature") /\ module.functions[last.item].args = <<>>
    /\ last.errs = <<>>
    /\ Instantiates(last.self, Registered.ref)

\* C16: every instantiation of a generic Distinct or Record definition is in
\* the interner, a Distinct type with the distinct-id stored for the definition; two
\* instantiations of one definition have the same handle exactly when they
\* were built from the same inner type or field list; instantiations of
\* different definitions have different handles; and instantiating again
\* what was instantiated before returns the same handle and leaves the
\* interner and distinct_counter as they were.
C16_CanonicalInstantiation ==
    /\ pc # "panicked" =>
          /\ \A x \in Instances(Self) : \E p \in types : p.id = x.id
          /\ \A x \in Instances(Self) :
                /\ TypeAt(Self, x.id).tag = "Distinct"
                /\ TypeAt(Self, x.id).distinct_id = generic_distinct_ids[x.ref.name]
          /\ \A x, y \in Instances(Self) :
                IF x.ref.name = y.ref.name
                THEN x.id = y.id <=> Inner(x) = Inner(y)
                ELSE x.id # y.id
    /\ RegisteredInstance =>
          \A y \in Instances(last.self) :
              y.ref = Registered.ref =>
                  /\ Registered.id = y.id
                  /\ types = last.self.types
                  /\ distinct_counter = last.self.distinct_counter

\* A generic definition has been instantiated a second time with the same
\* argument, next to an instantiation of another generic definition.
C16_Witness ==
    /\ RegisteredInstance
    /\ \E y \in Instances(last.self) : y.ref = Registered.ref
    /\ \E x \in Instances(Self) : x.ref.name # Registered.ref.name

\* One generic definition has two instantiations with different handles.
C16_WitnessDifferent ==
    /\ pc # "panicked"
    /\ \E x, y \in Instances(Self) : x.ref.name = y.ref.name /\ x.id # y.id

----------------------------------------------------------------------------
(* C17  Aliases add no identity.                                           *)

\* The complete aliases: registered definitions without parameters whose
\* body is Alias.
CompleteAliases ==
    {n \in DOMAIN complete_types : module.types[defs[n]].kind = "Alias"}

\* ref applies a registered generic Alias definition.
InstantiatesAlias(ref) ==
    /\ ref.k = "Named" /\ ref.args # <<>>
    /\ ref.name \in DOMAIN defs
    /\ module.types[defs[ref.name]].generics # <<>>
    /\ Len(module.types[defs[ref.name]].generics) = Len(ref.args)
    /\ module.types[defs[ref.name]].kind = "Alias"

\* The body of the generic alias that ref applies, read with each parameter
\* standing for the argument given to it.
AliasBody(ref) ==
    Denote(module.types[defs[ref.name]].rhs[1].type_,
           [n \in Range(module.types[defs[ref.name]].generics) |->
                Denote(ref.args[CHOOSE k \in DOMAIN ref.args :
                                    module.types[defs[ref.name]].generics[k] = n],
                       EmptyMap)])

\* C17: a complete alias has the handle of its target: the handle of the
\* complete type it names, the handle any other item holds for the same
\* target (another alias of it included), no Distinct of its own around what
\* the target denotes; registering it leaves distinct_counter as it was;
\* and an application of a generic alias has the handle of the body with
\* the arguments in place of the parameters.
C17_AliasesAddNoIdentity ==
    /\ pc # "panicked" =>
          /\ \A n \in CompleteAliases :
                LET target == module.types[defs[n]].rhs[1].type_ IN
                /\ (target.k = "Named" /\ target.args = <<>>) =>
                      /\ target.name \in DOMAIN complete_types
                      /\ complete_types[n] = complete_types[target.name]
                /\ \A x \in Held(Self) : x.ref = target => x.id = complete_types[n]
                /\ Expand(complete_types[n]) = Denote(target, EmptyMap)
          /\ \A x \in Held(Self) :
                InstantiatesAlias(x.ref) =>
                    /\ Expand(x.id) = AliasBody(x.ref)
                    /\ \A y \in Held(Self) :
                          Expand(y.id) = AliasBody(x.ref) => y.id = x.id
    /\ (/\ Stepped("add_type_definition")
        /\ module.types[last.item].generics = <<>>
        /\ module.types[last.item].kind = "Alias") =>
            distinct_counter = last.self.distinct_counter

\* An alias of a nominal type has been registered and a constant of that
\* type holds the same handle.
C17_Witness ==
    /\ pc # "panicked"
    /\ \E n \in CompleteAliases :
          LET target == module.types[defs[n]].rhs[1].type_ IN
          /\ target.k = "Named" /\ target.args = <<>>
          /\ TypeAt(Self, complete_types[n]).tag = "Distinct"
          /\ \E c \in DOMAIN consts : consts[c].type_ = complete_types[n]

\* An alias of an application of a generic alias has been registered.
C17_WitnessGeneric ==
    /\ Stepped("add_type_definition")
    /\ module.types[last.item].name \in CompleteAliases
    /\ InstantiatesAlias(module.types[last.item].rhs[1].type_)

----------------------------------------------------------------------------
(* C18  Generic parameters are not dependencies.                           *)

\* The generic parameters of definition i.
Parameters(i) == Range(module.types[i].generics)

\* No error of es blames a definition for a name that is one of its own
\* parameters.
ParameterFree(es) ==
    \A k \in DOMAIN es :
        /\ es[k].kind = "UndefinedType" =>
              \A u \in Range(es[k].uses) : es[k].name \notin Parameters(u.idx)
        /\ es[k].kind = "RecursiveTypeDefinition" =>
              es[k].name \notin Parameters(es[k].at)

\* In the graph g no edge of definition i leads to a name that is one of its
\* parameters, and every other name its body mentions is there: an edge to
\* the definition of that name, an UndefinedType with the place of the
\* mention, or the RecursiveTypeDefinition of i.
DependenciesIn(g, i) ==
    /\ \A j \in Range(g.adj[i]) : module.types[j].name \notin Parameters(i)
    /\ (~RepeatsGenericParameter(i) /\ ~SelfRecursive(i)) =>
          \A n \in Dependencies(i) :
              IF n \in TypeNames
              THEN \E j \in Range(g.adj[i]) : module.types[j].name = n
              ELSE \E k \in DOMAIN g.errs :
                      /\ g.errs[k].kind = "UndefinedType"
                      /\ g.errs[k].name = n
                      /\ Loc("type", i, n) \in Range(g.errs[k].uses)
    /\ (~RepeatsGenericParameter(i) /\ SelfRecursive(i)) =>
          \E k \in DOMAIN g.errs :
              /\ g.errs[k].kind = "RecursiveTypeDefinition"
              /\ g.errs[k].at = i
              /\ Loc("type", i, module.types[i].name) \in Range(g.errs[k].uses)

C18_WitnessOwnName ==
    /\ last.op = "dependency_stage"
    /\ pc = "groups"
    /\ \E i \in TypeIds :
          /\ module.types[i].name \in Parameters(i)
          /\ module.types[i].name \in Mentions(module.types[i].rhs[1].type_)

\* The dependency stage has seen a parameter that bears no definition's
\* name next to a name that is undefined.
C18_WitnessNoName ==
    /\ last.op = "dependency_stage"
    /\ \E i \in TypeIds :
          /\ \E n \in Parameters(i) :
                n \notin TypeNames /\ n \in Mentions(module.types[i].rhs[1].type_)
          /\ \E k \in DOMAIN last.errs : last.errs[k].kind = "UndefinedType"

----------------------------------------------------------------------------
(* C19  type_check never aborts.                                           *)

\* C19: type_check never panics: ty_named never indexes generic_distinct_ids
\* with a name the map does not hold, and no debug assertion on defs,
\* complete_types or the interner fails.
C19_NeverAborts == pc # "panicked" /\ ~assert_failed

----------------------------------------------------------------------------
(* C20  No spurious RecursiveTypeDefinition.                               *)

\* The errors es blame each definition for its own body only: a
\* RecursiveTypeDefinition is for a definition that mentions its own name
\* and lists places inside it, an UndefinedType lists places of one
\* definition that mentions the name.
OwnBodyOnly(es) ==
    \A k \in DOMAIN es :
        /\ es[k].kind = "RecursiveTypeDefinition" =>
              /\ SelfRecursive(es[k].at)
              /\ \A u \in Range(es[k].uses) : u.idx = es[k].at
        /\ es[k].kind = "UndefinedType" =>
              \E i \in TypeIds :
                  /\ es[k].name \in Dependencies(i)
                  /\ \A u \in Range(es[k].uses) : u.idx = i

\* C20: a RecursiveTypeDefinition is reported for a definition only if its
\* own body mentions its own name; its usages and the uses of an
\* UndefinedType are places inside the one definition; and the dependencies
\* of a definition hold nothing left over from an earlier one, so every edge
\* leads to a name the definition itself mentions.
C20_NoSpuriousRecursion ==
    /\ last.op = "dependency_stage" => OwnBodyOnly(last.errs)
    /\ last.op = "dependency_stage" =>
          \A g \in dependency_graphs :
              RepeatedTypeDeclarations = {} =>
                  \A i \in TypeIds : \A j \in Range(g.adj[i]) :
                      module.types[j].name \in Dependencies(i)

----------------------------------------------------------------------------
(* C21  No spurious UndefinedType.                                         *)

\* C21: every UndefinedType in the list type_check returns names a type the
\* module does not define.
C21_UndefinedIsUndeclared ==
    \A k \in DOMAIN returned :
        returned[k].kind = "UndefinedType" => returned[k].name \notin TypeNames

----------------------------------------------------------------------------
(* C22  Termination.                                                       *)

\* The definitions that resolving the name n can reach: ty_named resolves the
\* body of the definition registered under n, and ty_ref hands every name of
\* that body that is not a parameter back to ty_named.
RECURSIVE Instantiated(_)
Instantiated(S) ==
    LET T == S \cup {m \in DOMAIN defs : \E n \in S : m \in Dependencies(defs[n])}
    IN  IF T = S THEN S ELSE Instantiated(T)

\* No registered definition can be reached from the names of its own body.
RegisteredAcyclic ==
    \A n \in DOMAIN defs :
        /\ ~SelfRecursive(defs[n])
        /\ Component(defs[n]) = {defs[n]}
        /\ n \notin Instantiated(Dependencies(defs[n]) \cap DOMAIN defs)

\* An upper bound on the steps type_check has left: the components to
\* visit, the functions and the constants to add, and the ends of the phases.
StepsLeft ==
    CASE pc = "process_type_definitions" ->
            Len(module.types) + Len(module.functions) + Len(module.consts) + 5
      [] pc = "groups" -> Len(groups) + Len(module.functions) + Len(module.consts) + 4
      [] pc = "add_function_signatures" ->
            (Len(module.functions) + 1 - cursor) + Len(module.consts) + 3
      [] pc = "add_constants" -> (Len(module.consts) + 1 - cursor) + 1
      [] OTHER -> 0

\* A step of type_check brings its end nearer.
FewerStepsLeft == StepsLeft \in Nat /\ StepsLeft' \in Nat /\ StepsLeft' < StepsLeft

\* C22: type_check terminates: every step leaves fewer steps to take, and
\* the definitions registered so far never hold a self-reference or a
\* cycle, so the recursion of ty_ref and ty_named through them is no deeper
\* than the number of definitions.
C22_Termination ==
    /\ []RegisteredAcyclic
    /\ [][FewerStepsLeft]_vars

\* type_check has ended in success after resolving a reference through a
\* chain of two generic definitions.
C22_Witness ==
    /\ Done /\ result = "Ok"
    /\ \E i, j, k \in TypeIds :
          /\ module.types[j].name \in Dependencies(i)
          /\ module.types[k].name \in Dependencies(j)
          /\ module.types[j].generics # <<>> /\ module.types[k].generics # <<>>
          /\ module.types[i].generics = <<>>

\* type_check has ended in success after instantiating a generic definition
\* whose parameter bears the name of a definition.
C22_WitnessParameter ==
    /\ Done /\ result = "Ok"
    /\ \E i, j \in TypeIds :
          /\ module.types[j].name \in Dependencies(i)
          /\ module.types[i].generics = <<>>
          /\ Parameters(j) \cap TypeNames # {}

----------------------------------------------------------------------------
(* C23  Graph-stage failure leaves the Context untouched.                  *)

\* The Context is as Context::default() made it before the call.
ContextUntouched ==
    /\ defs = EmptyMap /\ generic_distinct_ids = EmptyMap /\ complete_types = EmptyMap
    /\ types = {} /\ distinct_counter = 0
    /\ function_sigs = EmptyMap /\ consts = EmptyMap

\* A fault the two loops over the type definitions find, by the text of the
\* module: a repeated name, a repeated parameter, a definition that mentions
\* itself, a name that no definition bears.
GraphFault ==
    \/ RepeatedTypeDeclarations # {}
    \/ \E i \in TypeIds :
          \/ RepeatsGenericParameter(i) \/ SelfRecursive(i)
          \/ ~(Dependencies(i) \subseteq TypeNames)

\* e is an error of the graph stage: one of its three own kinds, or an
\* UndefinedType for a name the type definitions mention and none bears.
GraphStageError(e) ==
    \/ e.kind \in {"TypeRedefinition", "GenericParamaterRedefinition",
                   "RecursiveTypeDefinition"}
    \/ /\ e.kind = "UndefinedType"
       /\ e.name \notin TypeNames
       /\ \E u \in Range(e.uses) : u.kind = "type"

\* C23: when the graph stage finds an error, type_check returns that stage's
\* errors with defs, generic_distinct_ids, complete_types, types,
\* distinct_counter, function_sigs and consts as they were before the call;
\* every module with such a fault ends so, and an error of the graph stage is
\* never returned together with a changed Context.
C23_GraphFailureLeavesContext ==
    /\ (last.op = "dependency_stage" /\ last.errs # <<>>) =>
          /\ Done /\ result = "Err" /\ returned = last.errs
          /\ ContextUntouched
          /\ last.self = Self
    /\ (GraphFault /\ last.op # "start") =>
          /\ last.op = "dependency_stage" /\ last.errs # <<>>
          /\ \E k \in DOMAIN returned : GraphStageError(returned[k])
    /\ (\E k \in DOMAIN returned : GraphStageError(returned[k])) =>
          /\ last.op = "dependency_stage"
          /\ ContextUntouched

\* type_check has returned a RecursiveTypeDefinition for a module that also
\* holds a definition without fault: that one was not registered either.
C23_Witness ==
    /\ Done
    /\ \E k \in DOMAIN returned : returned[k].kind = "RecursiveTypeDefinition"
    /\ \E i \in TypeIds :
          ~SelfRecursive(i) /\ Dependencies(i) = {} /\ i \notin RepeatedTypeDeclarations
    /\ ContextUntouched

----------------------------------------------------------------------------
(* C24  Interner well-formedness.                                          *)

\* The handles an interned type holds: the base of an array, the inner type
\* of a Distinct, the types of the fields of a record.
Nested(ty) ==
    CASE ty.tag \in {"OpenArray", "Array", "Distinct"} -> {ty.base}
      [] ty.tag = "Record" -> {ty.fields[k].type_ : k \in DOMAIN ty.fields}
      [] OTHER -> {}

\* The handles the tables of the Context hold.
StoredHandles ==
    Range(complete_types)
    \cup {function_sigs[f].ret : f \in DOMAIN function_sigs}
    \cup UNION {{function_sigs[f].args[k].type_ : k \in DOMAIN function_sigs[f].args} :
                    f \in DOMAIN function_sigs}
    \cup {consts[c].type_ : c \in DOMAIN consts}

\* C24: the handles of the interner are 0 .. n-1 for its n types, one type
\* per handle; a step keeps every pair there was and gives the new types the
\* next handles; every handle nested in an interned type is smaller than the
\* handle of that type; and every handle in complete_types, function_sigs
\* and consts is in the interner.
C24_InternerWellFormed ==
    /\ {p.id : p \in types} = 0..(Cardinality(types) - 1)
    /\ \A p, q \in types : p.id = q.id => p = q
    /\ interned \subseteq types
    /\ last.self.types \subseteq types
    /\ \A p \in types \ last.self.types : p.id >= Cardinality(last.self.types)
    /\ \A p \in types : \A h \in Nested(p.ty) : h < p.id
    /\ StoredHandles \subseteq {p.id : p \in types}

\* type_check has ended with a handle in each table and a Distinct around a
\* record in the interner.
C24_Witness ==
    /\ Done /\ result = "Ok"
    /\ complete_types # EmptyMap /\ function_sigs # EmptyMap /\ consts # EmptyMap
    /\ \E p, q \in types :
          p.ty.tag = "Distinct" /\ q.ty.tag = "Record" /\ p.ty.base = q.id

----------------------------------------------------------------------------
(* C25  Distinct-ids are fresh and never shared between definitions.       *)

\* The registered Distinct and Record definitions that hold a distinct-id:
\* the generic ones in generic_distinct_ids, the others in their complete type.
WithDistinctId ==
    {n \in DOMAIN defs :
        /\ module.types[defs[n]].kind \in {"Distinct", "Record"}
        /\ IF module.types[defs[n]].generics # <<>>
           THEN n \in DOMAIN generic_distinct_ids
           ELSE n \in DOMAIN complete_types}

\* The distinct-id of such a definition.
DistinctIdOf(n) ==
    IF module.types[defs[n]].generics # <<>>
    THEN generic_distinct_ids[n]
    ELSE TypeAt(Self, complete_types[n]).distinct_id

\* The interned Distinct types that carry the distinct-id d.
Carrying(d) == {p \in types : p.ty.tag = "Distinct" /\ p.ty.distinct_id = d}

\* C25: distinct_counter never decreases; every distinct-id in an interned
\* Distinct type or in generic_distinct_ids is smaller than distinct_counter;
\* no two definitions hold the same distinct-id; and a Distinct or Record
\* definition without parameters has exactly one interned Distinct type with
\* its id, the one complete_types keeps for it.
C25_DistinctIdsFresh ==
    /\ last.self.distinct_counter <= distinct_counter
    /\ \A p \in types : p.ty.tag = "Distinct" => p.ty.distinct_id < distinct_counter
    /\ \A n \in DOMAIN generic_distinct_ids : generic_distinct_ids[n] < distinct_counter
    /\ Range(complete_types) \subseteq {p.id : p \in types}
    /\ \A n \in WithDistinctId :
          /\ \A m \in WithDistinctId : n # m => DistinctIdOf(n) # DistinctIdOf(m)
          /\ module.types[defs[n]].generics = <<>> =>
                /\ TypeAt(Self, complete_types[n]).tag = "Distinct"
                /\ Carrying(DistinctIdOf(n)) =
                      {[ty |-> TypeAt(Self, complete_types[n]), id |-> complete_types[n]]}

\* A nominal definition without parameters and a generic one are registered,
\* and two instantiations of the generic one are interned.
C25_Witness ==
    /\ pc # "panicked"
    /\ \E n, m \in WithDistinctId :
          /\ module.types[defs[n]].generics = <<>>
          /\ module.types[defs[m]].generics # <<>>
          /\ Cardinality(Carrying(DistinctIdOf(m))) >= 2

====
